---- MODULE Spec2Model ----
(***************************************************************************)
(* The performance measurement script measure_performance.ts (final        *)
(* variant, lines 2253-3564): processTraceData turns one trace text into   *)
(* one MetricSet and writeMetricsToFile renders it as a report;            *)
(* runPerformanceTests runs the iterations and generateSummaryReport       *)
(* aggregates the reports with calculateStats; main resolves the options.  *)
(*                                                                         *)
(* Numbers.  The script computes with IEEE doubles; the model computes     *)
(* with exact decimals in three limbs of base 10^6,                        *)
(*     value = M * 10^6 + S + U * 10^-6   (seconds),                       *)
(* so that both a sub-millisecond fraction and a magnitude above 10^12     *)
(* are representable.  Binary rounding error of doubles is not modelled.   *)
(*                                                                         *)
(* Text.  The trace text is a sequence of lines.  A line is either an      *)
(* atrace record `task (pid) [cpu] .... ts: ev: text` or free text.  The   *)
(* regular expressions of the script are translated to predicates over     *)
(* the fields of a line; names (package, markers, keywords) are searched   *)
(* as substrings of the real text.  Every line is a complete record, so    *)
(* no match spans two lines, and no text matches a name merely through a   *)
(* regex metacharacter inside that name.                                   *)
(***************************************************************************)
EXTENDS Integers, Sequences, FiniteSets, TLC

VARIABLES
    \* processTraceData and writeMetricsToFile
    traceContent, config, pc, appStartTimestamp, metrics, report,
    \* runPerformanceTests and generateSummaryReport
    iteration, traceFiles, files, runMetrics, allMetrics, summary, runPc,
    \* what runPerformanceTests has called so far (history)
    calls, attempts, tracing, summaries,
    \* main
    argv, envConfig, resolved,
    \* calculateStats
    values, stats,
    \* create-avds: main, createAvd and ensurePackageInstalled
    devices, deviceIndex, installedPackages, installs, successfulCreations,
    avdPc,
    \* measure-rn-performance: main
    perfMetrics, adbProcess, stdoutLocked, logPc,
    \* generateSummaryReport, the variant that averages
    metricFiles, averaged, summaryText, avgPc

histVars == <<calls, attempts, tracing, summaries>>

runVars ==
    <<iteration, traceFiles, files, runMetrics, allMetrics, summary, runPc,
      histVars>>

mainVars == <<argv, envConfig, resolved>>

statVars == <<values, stats>>

avdVars ==
    <<devices, deviceIndex, installedPackages, installs, successfulCreations,
      avdPc>>

logVars == <<perfMetrics, adbProcess, stdoutLocked, logPc>>

avgVars == <<metricFiles, averaged, summaryText, avgPc>>

toolVars == <<avdVars, logVars, avgVars>>

vars ==
    <<traceContent, config, pc, appStartTimestamp, metrics, report,
      runVars, mainVars, statVars, toolVars>>

(***************************************************************************)
(* Bounds                                                                  *)
(***************************************************************************)
MaxLines == 2

\* Most iterations of a run
MaxIterations == 2

\* Longest list handed to calculateStats on its own
MaxValues == 4

(***************************************************************************)
(* Numbers                                                                 *)
(***************************************************************************)
Base == 1000 * 1000

Num(m, s, u) == [k |-> "num", neg |-> FALSE, M |-> m, S |-> s, U |-> u]

Zero == Num(0, 0, 0)

NaN == [k |-> "nan", neg |-> FALSE, M |-> 0, S |-> 0, U |-> 0]

FromInt(n) == Num(n \div Base, n % Base, 0)

IsNum(v) == v.k = "num"

IsZero(v) == IsNum(v) /\ v.M = 0 /\ v.S = 0 /\ v.U = 0

\* JavaScript truthiness of a number: neither 0 nor NaN.
Truthy(v) == IsNum(v) /\ ~IsZero(v)

MagLess(a, b) ==
    \/ a.M < b.M
    \/ a.M = b.M /\ a.S < b.S
    \/ a.M = b.M /\ a.S = b.S /\ a.U < b.U

\* a > b for numbers that are not negative.
Greater(a, b) == IsNum(a) /\ IsNum(b) /\ ~a.neg /\ MagLess(b, a)

\* |a| - |b| for |a| >= |b|
SubMag(a, b) ==
    LET u  == a.U - b.U
        bu == IF u < 0 THEN 1 ELSE 0
        s  == a.S - b.S - bu
        bs == IF s < 0 THEN 1 ELSE 0
    IN  Num(a.M - b.M - bs, s + bs * Base, u + bu * Base)

\* a - b for two non-negative numbers (every operand of a subtraction in
\* processTraceData is parsed from [0-9.]+ and so carries no sign).
Minus(a, b) ==
    IF ~IsNum(a) \/ ~IsNum(b) THEN NaN
    ELSE IF MagLess(a, b) THEN [SubMag(b, a) EXCEPT !.neg = TRUE]
    ELSE SubMag(a, b)

\* parseFloat(x.toFixed(3)): the magnitude is rounded to a multiple of
\* 10^-3, a tie going up.
Round3(v) ==
    IF ~IsNum(v) THEN v
    ELSE LET r  == v.U % 1000
             u1 == v.U - r + (IF r >= 500 THEN 1000 ELSE 0)
             cu == IF u1 >= Base THEN 1 ELSE 0
             s1 == v.S + cu
             cs == IF s1 >= Base THEN 1 ELSE 0
             w  == [k |-> "num", neg |-> v.neg, M |-> v.M + cs,
                    S |-> s1 - cs * Base, U |-> u1 - cu * Base]
         IN  IF w.M = 0 /\ w.S = 0 /\ w.U = 0 THEN Zero ELSE w

\* x / 1000000: a shift by one limb.  The part below 10^-6 of the quotient
\* (the old U limb) is dropped; rounding at the third decimal, which always
\* follows, cannot see it.
DivMillion(v) == [k |-> "num", neg |-> v.neg, M |-> v.M \div Base,
                  S |-> v.M % Base, U |-> v.S]

MicrosThreshold == 1000000

normalizeTimestamp(timestamp) ==
    IF Greater(timestamp, FromInt(MicrosThreshold))
    THEN Round3(DivMillion(timestamp))
    ELSE timestamp

(***************************************************************************)
(* Text                                                                    *)
(***************************************************************************)
StartsWith(s, p) == Len(s) >= Len(p) /\ SubSeq(s, 1, Len(p)) = p

\* Index after the first occurrence of n in s, 0 when n does not occur.
AfterFirst(s, n) ==
    LET I == {i \in 1..(Len(s) - Len(n) + 1) : SubSeq(s, i, i + Len(n) - 1) = n}
    IN  IF I = {} THEN 0
        ELSE (CHOOSE i \in I : \A j \in I : i <= j) + Len(n)

Contains(s, n) == AfterFirst(s, n) # 0

\* `.*n1.*n2...` within one line: the names occur in this order.
RECURSIVE InOrder(_, _)
InOrder(s, names) ==
    IF names = <<>> THEN TRUE
    ELSE LET a == AfterFirst(s, Head(names))
         IN  a # 0 /\ InOrder(SubSeq(s, a, Len(s)), Tail(names))

(***************************************************************************)
(* Trace lines                                                             *)
(***************************************************************************)
\* An atrace record `task (pid) [cpu] .... ts: ev: ph|pid|rest` (ph = "" when
\* the text after `ev:` is not of the form `\w+|\d+|...`).  lead is what
\* parseFloat yields for the first maximal run of [0-9.] in the line: that
\* run lies in the task or pid column, never in the timestamp column.
ATrace(task, lead, ts, ev, ph, rest) ==
    [fmt |-> "atrace", task |-> task, hasLead |-> TRUE, lead |-> lead,
     ts |-> ts, ev |-> ev, ph |-> ph, rest |-> rest]

\* Free text; when it holds a digit or a dot, the text starts with that run
\* and rest is the text after it.
Plain(hasLead, lead, rest) ==
    [fmt |-> "plain", task |-> "", hasLead |-> hasLead, lead |-> lead,
     ts |-> Zero, ev |-> "", ph |-> "", rest |-> rest]

PidText == "1234"

\* The text after `ev:` of an atrace record.
MarkText(l) ==
    IF l.ph = "" THEN " " \o l.rest
    ELSE " " \o l.ph \o "|" \o PidText \o "|" \o l.rest

\* The text after `ts:` of an atrace record.
Payload(l) == " " \o l.ev \o ":" \o MarkText(l)

\* The text after the first run of [0-9.] that can still hold a name.
TextAfterLead(l) == IF l.fmt = "atrace" THEN Payload(l) ELSE l.rest

\* The whole line, as far as names can occur in it.
FullText(l) == IF l.fmt = "atrace" THEN l.task \o Payload(l) ELSE l.rest

T0   == Zero
TA   == Num(0, 100, 500000)
TB   == Num(0, 123, 456000)
TC   == Num(0, 124, 100000)
TD   == Num(0, 124, 100400)
TE6  == Num(1, 0, 0)
TU1  == Num(1, 500000, 0)
TU2  == Num(2, 345678, 500000)
TBIG == Num(2000000, 0, 0)

Anon == "<...>-1234"

TMW == "tracing_mark_write"

TraceLines ==
    { ATrace(Anon, NaN, TB,  TMW, "B", "Startup"),
      ATrace(Anon, NaN, TU1, TMW, "B", "Startup"),
      ATrace(Anon, NaN, T0,  TMW, "B", "Startup"),
      ATrace(Anon, NaN, TA,  TMW, "B", "APPLICATION_START"),
      ATrace(Anon, NaN, TA,  TMW, "",  "ActivityManager: START u0 com.example.app"),
      ATrace(Anon, NaN, TC,  TMW, "B", "performCreate com.example.app"),
      ATrace(Anon, NaN, TD,  TMW, "B", "performResume com.example.app"),
      ATrace(Anon, NaN, TC,  TMW, "B", "js_init"),
      ATrace(Anon, NaN, TE6, TMW, "B", "js_init"),
      ATrace(Anon, NaN, TU2, TMW, "B", "js_init_done"),
      ATrace(Anon, NaN, TA,  "sched_switch", "", "next_comm=com.example.app"),
      ATrace("com.example.app-1234", NaN, TC, "sched_switch", "", "prev_state=S"),
      ATrace(Anon, NaN, TA,   TMW, "B", "nav_start"),
      ATrace(Anon, NaN, TU1,  TMW, "B", "nav_start"),
      ATrace(Anon, NaN, TBIG, TMW, "B", "nav_start"),
      ATrace(Anon, NaN, TD,   TMW, "E", "nav_end"),
      ATrace(Anon, NaN, TU2,  TMW, "E", "nav_end"),
      ATrace("RenderThread-77", Num(0, 77, 0), TC, "sched_wakeup", "", "comm=js_init"),
      ATrace(Anon, NaN, TA, "sched_wakeup", "", "comm=nav_end"),
      Plain(TRUE, Num(0, 12, 500000), " PerfettoTracer beginTrace TEST_EVENT_MANUAL"),
      Plain(TRUE, Num(0, 7, 250000), " ActivityManager: START com.example.app"),
      Plain(FALSE, Zero, "--------- beginning of main") }

\* The traces a device hands back in the runs that are checked.
RunTraces ==
    { << >>,
      << ATrace(Anon, NaN, TB, TMW, "B", "Startup"),
         ATrace(Anon, NaN, TC, TMW, "B", "js_init") >>,
      << ATrace(Anon, NaN, TA, TMW, "B", "APPLICATION_START"),
         ATrace(Anon, NaN, TC, TMW, "B", "js_init") >>,
      << ATrace(Anon, NaN, TA, TMW, "B", "nav_start"),
         ATrace(Anon, NaN, TB, TMW, "B", "Startup"),
         ATrace(Anon, NaN, TD, TMW, "E", "nav_end") >>,
      << ATrace(Anon, NaN, TA, TMW, "B", "APPLICATION_START"),
         ATrace(Anon, NaN, TB, TMW, "E", "nav_end"),
         ATrace(Anon, NaN, TC, TMW, "B", "nav_start") >> }

\* Every line of every trace.
AllLines ==
    TraceLines
        \cup UNION {{t[i] : i \in DOMAIN t} : t \in RunTraces}

RECURSIVE SeqsUpTo(_, _)
SeqsUpTo(S, n) ==
    IF n = 0 THEN {<<>>}
    ELSE LET R == SeqsUpTo(S, n - 1)
         IN  R \cup {Append(t, x) : t \in {r \in R : Len(r) = n - 1}, x \in S}

PACKAGE_NAME == "com.example.app"

NavPair == [start |-> "nav_start", end |-> "nav_end", name |-> "nav"]

\* A config with the settings that processTraceData, writeMetricsToFile and
\* generateSummaryReport read.
Cfg(custom, paired, n, warm) ==
    [appPackage |-> PACKAGE_NAME, appActivity |-> "", iterations |-> n,
     warmMode |-> warm, customMarkers |-> custom, pairedMarkers |-> paired]

\* The marker configurations: a single marker, a single pair, a marker that
\* is also the start of a pair (one key, mentioned twice), and both kinds.
Configs ==
    { Cfg(<<"js_init">>, <<>>, 1, FALSE),
      Cfg(<<>>, <<NavPair>>, 1, FALSE),
      Cfg(<<"nav_start">>, <<NavPair>>, 1, FALSE),
      Cfg(<<"js_init">>, <<NavPair>>, 1, FALSE) }

\* A pair as a markers file can hold it: the start name is empty.
BadPair == [start |-> "", end |-> "nav_end", name |-> "nav"]

\* The configurations of the runs: both kinds of marker, a shared key, and
\* the pair without a start name; any number of iterations, cold or warm.
RunConfigs ==
    { Cfg(m.custom, m.paired, n, warm) :
        m \in { [custom |-> <<"js_init">>,   paired |-> <<NavPair>>],
                [custom |-> <<"nav_start">>, paired |-> <<NavPair>>],
                [custom |-> <<>>,            paired |-> <<BadPair>>] },
        n \in 1..MaxIterations, warm \in BOOLEAN }

(***************************************************************************)
(* Regular expressions                                                     *)
(***************************************************************************)
Pat(kind, names) == [kind |-> kind, names |-> names]

\* What follows the `$` of a regex literal that spells `${config.appPackage}`
\* without being a template: `$` asserts the end of the input and the rest
\* is literal text.
LiteralTail == "{config.appPackage}"

\* The input left after the position where `$` holds.
AfterEndOfInput == ""

\* Does the pattern match inside line l?
\*   startup  PREFIX tracing_mark_write:\s+B\|\d+\|<name>
\*   phase    PREFIX tracing_mark_write:\s+\w+\|\d+\|<name>
\*   mark     PREFIX tracing_mark_write:.*<n1>.*<n2>...
\*   mention  PREFIX .*<name>
\*   prefix   PREFIX
\*   loose    ([0-9.]+).*<n1>.*<n2>...
\*   literal  /([0-9.]+).*<n1>.*<n2>.*?${config.appPackage}/
\* with PREFIX = \S+\s+\(\s*\d+\)\s+\[\d+\]\s+\.+\s+([0-9.]+):\s+
LineMatches(p, l) ==
    CASE p.kind = "startup" ->
            /\ l.fmt = "atrace" /\ l.ev = TMW /\ l.ph = "B"
            /\ StartsWith(l.rest, p.names[1])
      [] p.kind = "phase" ->
            /\ l.fmt = "atrace" /\ l.ev = TMW /\ l.ph # ""
            /\ StartsWith(l.rest, p.names[1])
      [] p.kind = "mark" ->
            l.fmt = "atrace" /\ l.ev = TMW /\ InOrder(MarkText(l), p.names)
      [] p.kind = "mention" ->
            l.fmt = "atrace" /\ InOrder(Payload(l), p.names)
      [] p.kind = "prefix" -> l.fmt = "atrace"
      [] p.kind = "loose" ->
            l.hasLead /\ InOrder(TextAfterLead(l), p.names)
      [] p.kind = "literal" ->
            /\ StartsWith(AfterEndOfInput, LiteralTail)
            /\ l.hasLead /\ InOrder(TextAfterLead(l), p.names)

Range(q) == {q[i] : i \in DOMAIN q}

\* The custom marker names and the start and end names of the pairs.
MarkerNames(cfg) ==
    Range(cfg.customMarkers)
        \cup {p.start : p \in Range(cfg.pairedMarkers)}
        \cup {p.end : p \in Range(cfg.pairedMarkers)}

appStartPatterns(pkg) ==
    << Pat("startup", <<"Startup">>),
       Pat("mark", <<"APPLICATION_START">>),
       Pat("mark", <<"ActivityManager", "START", pkg>>),
       Pat("mark", <<"ActivityTaskManager", "START", pkg>>),
       Pat("mark", <<"Displayed", pkg>>),
       Pat("mark", <<"am_create_activity", pkg>>),
       Pat("mark", <<"am_on_resume_called", pkg>>),
       Pat("mark", <<"am_proc_start", pkg>>),
       Pat("literal", <<"ActivityManager", "START">>),
       Pat("literal", <<"ActivityTaskManager", "START">>),
       Pat("literal", <<"ActivityManager", "Displayed">>),
       Pat("literal", <<"am_create_activity">>),
       Pat("literal", <<"am_on_resume_called">>),
       Pat("literal", <<"am_proc_start">>),
       Pat("literal", <<"am_create_task">>) >>

customPatterns(marker) ==
    << Pat("phase", <<marker>>),
       Pat("mark", <<marker>>),
       Pat("loose", <<"PerfettoTracer", "beginTrace", marker>>),
       Pat("loose", <<"PerfettoTracer", marker>>),
       Pat("loose", <<"beginTrace", marker>>),
       Pat("loose", <<marker, "begin">>),
       Pat("loose", <<"begin", marker>>),
       Pat("loose", <<"TEST_EVENT_MANUAL">>),
       Pat("loose", <<"test_event_manual">>),
       Pat("loose", <<marker>>) >>

\* startPatterns and endPatterns: the same five patterns for pair.start and
\* for pair.end
pairPatterns(marker) ==
    << Pat("phase", <<marker>>),
       Pat("mark", <<marker>>),
       Pat("loose", <<"PerfettoTracer", "beginTrace", marker>>),
       Pat("loose", <<"PerfettoTracer", marker>>),
       Pat("loose", <<marker>>) >>

LifecycleEvents ==
    << [word |-> "performCreate",    key |-> "activityCreateTimestamp",
        rel |-> "timeToCreate",      label |-> "Activity Create",
        sum |-> "activity_create"],
       [word |-> "performStart",     key |-> "activityStartTimestamp",
        rel |-> "timeToStart",       label |-> "Activity Start",
        sum |-> "activity_start"],
       [word |-> "performResume",    key |-> "activityResumeTimestamp",
        rel |-> "timeToResume",      label |-> "Activity Resume",
        sum |-> "activity_resume"],
       [word |-> "reportFullyDrawn", key |-> "activityDrawnTimestamp",
        rel |-> "timeToFullyDrawn",  label |-> "Activity Fully Drawn",
        sum |-> "activity_drawn"] >>

lifecyclePattern(word) == Pat("literal", <<word>>)

\* Every pattern the configurations can give rise to.
PatternUniverse ==
    LET Names == UNION {MarkerNames(c) : c \in Configs \cup RunConfigs}
    IN  UNION { Range(appStartPatterns(PACKAGE_NAME)),
                UNION {Range(customPatterns(m)) : m \in Names},
                UNION {Range(pairPatterns(m)) : m \in Names},
                {lifecyclePattern(e.word) : e \in Range(LifecycleEvents)},
                {Pat("mention", <<PACKAGE_NAME>>), Pat("prefix", <<>>)} }

\* LineMatches of every pattern on every line, computed once.
MatchTable ==
    [l \in AllLines |-> [p \in PatternUniverse |-> LineMatches(p, l)]]

Matches(p, l) == MatchTable[l][p]

\* parseFloat(match[1])
Captured(p, l) == IF p.kind \in {"loose", "literal"} THEN l.lead ELSE l.ts

NoMatch == [found |-> FALSE, value |-> Zero]

\* text.match(p): the leftmost match, which lies in the first line that
\* matches.
TextMatch(text, p) ==
    LET I == {i \in 1..Len(text) : Matches(p, text[i])}
    IN  IF I = {} THEN NoMatch
        ELSE [found |-> TRUE,
              value |-> Captured(p, text[CHOOSE i \in I : \A j \in I : i <= j])]

\* for (const pattern of patterns) { match = text.match(pattern);
\*                                   if (match) { ...; break; } }
RECURSIVE FirstPattern(_, _)
FirstPattern(text, patterns) ==
    IF patterns = <<>> THEN NoMatch
    ELSE LET r == TextMatch(text, Head(patterns))
         IN  IF r.found THEN r ELSE FirstPattern(text, Tail(patterns))

(***************************************************************************)
(* processTraceData                                                        *)
(***************************************************************************)
\* metrics[key] = value
Put(m, key, value) ==
    [x \in (DOMAIN m) \cup {key} |-> IF x = key THEN value ELSE m[x]]

Has(m, key) == key \in DOMAIN m

\* if (metrics[key]): the key is set to a number other than 0 and NaN
IsSet(m, key) == Has(m, key) /\ Truthy(m[key])

NoMetrics == [x \in {} |-> Zero]

TsKey(name) == name \o "Timestamp"

RelKey(name) == "timeTo" \o name

\* A variant of the pattern loop that lets the position in the text decide: the
\* earliest line that any pattern matches wins.
AppStartLoop_ByPosition(text, pkg) ==
    LET P == appStartPatterns(pkg)
        I == {i \in DOMAIN text : \E k \in DOMAIN P : Matches(P[k], text[i])}
    IN  IF I = {} THEN Zero
        ELSE LET i == CHOOSE x \in I : \A y \in I : x <= y
                 K == {k \in DOMAIN P : Matches(P[k], text[i])}
             IN  Captured(P[CHOOSE x \in K : \A y \in K : x <= y], text[i])

\* The pattern loop over appStartPatterns.
AppStartLoop(text, pkg) ==
    LET r == FirstPattern(text, appStartPatterns(pkg))
    IN  IF r.found THEN r.value ELSE Zero

\* A variant of the first fallback that takes the last mention of the package.
FirstMention_Last(text, pkg, ts) ==
    LET p == Pat("mention", <<pkg>>)
        I == {i \in DOMAIN text : Matches(p, text[i])}
    IN  IF ~Truthy(ts) /\ I # {}
        THEN Captured(p, text[CHOOSE x \in I : \A y \in I : y <= x])
        ELSE ts

\* if (!appStartTimestamp) { first mention of the package }
FirstMention(text, pkg, ts) ==
    LET r == TextMatch(text, Pat("mention", <<pkg>>))
    IN  IF ~Truthy(ts) /\ r.found THEN r.value ELSE ts

\* if (!appStartTimestamp) { first timestamp of the trace }
FirstTimestamp(text, ts) ==
    LET r == TextMatch(text, Pat("prefix", <<>>))
    IN  IF ~Truthy(ts) /\ r.found THEN r.value ELSE ts

RECURSIVE LifecycleLoop(_, _, _)
LifecycleLoop(m, text, evs) ==
    IF evs = <<>> THEN m
    ELSE LET r == TextMatch(text, lifecyclePattern(Head(evs).word))
         IN  LifecycleLoop(IF r.found THEN Put(m, Head(evs).key, r.value) ELSE m,
                           text, Tail(evs))

\* A variant of the marker loop that stores a key for every marker, 0 for the
\* ones no pattern matches.
RECURSIVE CustomLoop_AlwaysStored(_, _, _)
CustomLoop_AlwaysStored(m, text, markers) ==
    IF markers = <<>> THEN m
    ELSE CustomLoop_AlwaysStored(
             Put(m, Head(markers) \o "Timestamp",
                 FirstPattern(text, customPatterns(Head(markers))).value),
             text, Tail(markers))

RECURSIVE CustomLoop(_, _, _)
CustomLoop(m, text, markers) ==
    IF markers = <<>> THEN m
    ELSE LET r == FirstPattern(text, customPatterns(Head(markers)))
         IN  CustomLoop(IF r.found
                        THEN Put(m, Head(markers) \o "Timestamp", r.value)
                        ELSE m,
                        text, Tail(markers))

\* A variant of the duration guard with || for &&.
EitherResolved(startTimestamp, endTimestamp) ==
    Truthy(startTimestamp) \/ Truthy(endTimestamp)

\* if (startTimestamp && endTimestamp)
BothResolved(startTimestamp, endTimestamp) ==
    Truthy(startTimestamp) /\ Truthy(endTimestamp)

\* One pass of the loop over config.pairedMarkers.
PairStep(m, text, pair) ==
    LET s  == FirstPattern(text, pairPatterns(pair.start))
        e  == FirstPattern(text, pairPatterns(pair.end))
        startTimestamp == IF s.found THEN s.value ELSE Zero
        endTimestamp   == IF e.found THEN e.value ELSE Zero
        m1 == IF s.found THEN Put(m, pair.start \o "Timestamp", startTimestamp)
              ELSE m
        m2 == IF e.found THEN Put(m1, pair.end \o "Timestamp", endTimestamp)
              ELSE m1
    IN  IF BothResolved(startTimestamp, endTimestamp)
        THEN Put(m2, pair.name \o "Duration", Minus(endTimestamp, startTimestamp))
        ELSE m2

RECURSIVE PairLoop(_, _, _)
PairLoop(m, text, pairs) ==
    IF pairs = <<>> THEN m
    ELSE PairLoop(PairStep(m, text, Head(pairs)), text, Tail(pairs))

\* if (metrics[<name>Timestamp]) metrics[timeTo<name>] = it - appStartTimestamp
RelativeOf(m, name, key, anchor) ==
    IF IsSet(m, key) THEN Put(m, name, Minus(m[key], anchor)) ELSE m

RECURSIVE RelLifecycle(_, _, _)
RelLifecycle(m, evs, anchor) ==
    IF evs = <<>> THEN m
    ELSE RelLifecycle(RelativeOf(m, Head(evs).rel, Head(evs).key, anchor),
                      Tail(evs), anchor)

RECURSIVE RelCustom(_, _, _)
RelCustom(m, markers, anchor) ==
    IF markers = <<>> THEN m
    ELSE RelCustom(RelativeOf(m, "timeTo" \o Head(markers),
                              Head(markers) \o "Timestamp", anchor),
                   Tail(markers), anchor)

RECURSIVE RelPairs(_, _, _)
RelPairs(m, pairs, anchor) ==
    IF pairs = <<>> THEN m
    ELSE LET p  == Head(pairs)
             m1 == RelativeOf(m, "timeTo" \o p.start, p.start \o "Timestamp", anchor)
             m2 == RelativeOf(m1, "timeTo" \o p.end, p.end \o "Timestamp", anchor)
         IN  RelPairs(m2, Tail(pairs), anchor)

\* A variant of the derivation without the guard on the anchor.
DeriveRelative_Unguarded(m, cfg, anchor) ==
    RelPairs(RelCustom(RelLifecycle(m, LifecycleEvents, anchor),
                       cfg.customMarkers, anchor),
             cfg.pairedMarkers, anchor)

\* if (appStartTimestamp) { ... }
DeriveRelative(m, cfg, anchor) ==
    IF Truthy(anchor)
    THEN RelPairs(RelCustom(RelLifecycle(m, LifecycleEvents, anchor),
                            cfg.customMarkers, anchor),
                  cfg.pairedMarkers, anchor)
    ELSE m

\* if (metrics[key]) metrics[key] = normalizeTimestamp(metrics[key])
NormKey(m, key) ==
    IF IsSet(m, key) THEN Put(m, key, normalizeTimestamp(m[key])) ELSE m

\* if (metrics[key]) metrics[key] = parseFloat(metrics[key].toFixed(3))
RoundKey(m, key) ==
    IF IsSet(m, key) THEN Put(m, key, Round3(m[key])) ELSE m

RECURSIVE NormLifecycle(_, _)
NormLifecycle(m, evs) ==
    IF evs = <<>> THEN m
    ELSE NormLifecycle(NormKey(m, Head(evs).key), Tail(evs))

RECURSIVE NormCustom(_, _)
NormCustom(m, markers) ==
    IF markers = <<>> THEN m
    ELSE NormCustom(RoundKey(NormKey(m, Head(markers) \o "Timestamp"),
                             "timeTo" \o Head(markers)),
                    Tail(markers))

RECURSIVE NormPairs(_, _)
NormPairs(m, pairs) ==
    IF pairs = <<>> THEN m
    ELSE LET p  == Head(pairs)
             m1 == NormKey(m, p.start \o "Timestamp")
             m2 == NormKey(m1, p.end \o "Timestamp")
             m3 == RoundKey(m2, p.name \o "Duration")
             m4 == RoundKey(m3, "timeTo" \o p.start)
             m5 == RoundKey(m4, "timeTo" \o p.end)
         IN  NormPairs(m5, Tail(pairs))

NormalizeAll(m, cfg) ==
    NormPairs(NormCustom(NormLifecycle(NormKey(m, "appStartTimestamp"),
                                       LifecycleEvents),
                         cfg.customMarkers),
              cfg.pairedMarkers)

(***************************************************************************)
(* Numbers as text                                                         *)
(***************************************************************************)
Digits == <<"0", "1", "2", "3", "4", "5", "6", "7", "8", "9">>

IsDigit(c) == \E d \in DOMAIN Digits : Digits[d] = c

DigitOf(c) == (CHOOSE d \in DOMAIN Digits : Digits[d] = c) - 1

\* The last w decimal digits of n, with leading zeros (w <= 6).
Padded(n, w) == SubSeq(ToString(Base + n), 8 - w, 7)

\* number.toFixed(3)
toFixed3(v) ==
    IF ~IsNum(v) THEN "NaN"
    ELSE LET r     == Round3(v)
             whole == IF r.M = 0 THEN ToString(r.S)
                      ELSE ToString(r.M) \o Padded(r.S, 6)
         IN  (IF v.neg /\ ~IsZero(v) THEN "-" ELSE "")
                 \o whole \o "." \o Padded(r.U \div 1000, 3)

\* The length of the longest prefix of s that consists of decimal digits.
LeadingDigits(s) ==
    LET N == {n \in 0..Len(s) : \A i \in 1..n : IsDigit(SubSeq(s, i, i))}
    IN  CHOOSE n \in N : \A k \in N : k <= n

RECURSIVE StrToNat(_)
StrToNat(s) ==
    IF s = "" THEN 0
    ELSE 10 * StrToNat(SubSeq(s, 1, Len(s) - 1))
             + DigitOf(SubSeq(s, Len(s), Len(s)))

\* parseFloat(s) for a text s of digits and dots: the longest prefix
\* `digits [. digits]` is the number; without any digit the result is NaN.
\* Digits below 10^-6 are dropped.
parseFloat(s) ==
    LET n      == LeadingDigits(s)
        whole  == SubSeq(s, 1, n)
        hasDot == n < Len(s) /\ SubSeq(s, n + 1, n + 1) = "."
        after  == IF hasDot THEN SubSeq(s, n + 2, Len(s)) ELSE ""
        f      == LeadingDigits(after)
        frac6  == SubSeq(SubSeq(after, 1, f) \o "000000", 1, 6)
    IN  IF n = 0 /\ f = 0 THEN NaN
        ELSE Num(IF n > 6 THEN StrToNat(SubSeq(whole, 1, n - 6)) ELSE 0,
                 IF n > 6 THEN StrToNat(SubSeq(whole, n - 5, n))
                 ELSE StrToNat(whole),
                 StrToNat(frac6))

\* The longest prefix of s that consists of digits and dots: [0-9.]*
NumberRun(s) ==
    LET N == {n \in 0..Len(s) :
                 \A i \in 1..n : LET c == SubSeq(s, i, i)
                                 IN  IsDigit(c) \/ c = "."}
    IN  SubSeq(s, 1, CHOOSE n \in N : \A k \in N : k <= n)

\* `([0-9.]+) seconds` at the start of s, and parseFloat of the group.
CaptureSeconds(s) ==
    LET r == NumberRun(s)
    IN  IF r # "" /\ StartsWith(SubSeq(s, Len(r) + 1, Len(s)), " seconds")
        THEN [found |-> TRUE, value |-> parseFloat(r)]
        ELSE NoMatch

\* `<label>([0-9.]+) seconds` inside the line s.  The label occurs at most
\* once in a line of a report.
CaptureAfter(s, label) ==
    LET a == AfterFirst(s, label)
    IN  IF a = 0 THEN NoMatch ELSE CaptureSeconds(SubSeq(s, a, Len(s)))

\* The text is empty or blank: \s*
IsBlank(s) == \A i \in 1..Len(s) : SubSeq(s, i, i) = " "

\* s without its leading blanks
LTrim(s) ==
    LET N == {n \in 0..Len(s) : \A i \in 1..n : SubSeq(s, i, i) = " "}
    IN  SubSeq(s, 1 + (CHOOSE n \in N : \A k \in N : k <= n), Len(s))

\* `<name>\s*$`: the line ends with the name, blanks aside.
EndsWith(s, name) ==
    \E k \in 0..Len(s) :
        /\ IsBlank(SubSeq(s, Len(s) - k + 1, Len(s)))
        /\ Len(s) - k >= Len(name)
        /\ SubSeq(s, Len(s) - k - Len(name) + 1, Len(s) - k) = name

(***************************************************************************)
(* writeMetricsToFile: the report of one run, a sequence of lines          *)
(***************************************************************************)
\* new Date().toISOString(): the time of day is not modelled.
DateText == "<now>"

RunMode(cfg) == IF cfg.warmMode THEN "Warm" ELSE "Cold"

ReportHeader(m, cfg) ==
    << "=== Performance Metrics ===",
       "App Package: " \o cfg.appPackage,
       "Run Mode: " \o RunMode(cfg),
       "Date: " \o DateText,
       "" >>
    \o (IF IsSet(m, "appStartTimestamp")
        THEN << "App Start Timestamp (t=0): "
                    \o toFixed3(m["appStartTimestamp"])
                    \o " seconds (absolute time)",
                "" >>
        ELSE << >>)

RECURSIVE ReportLifecycle(_, _)
ReportLifecycle(m, evs) ==
    IF evs = <<>> THEN << >>
    ELSE LET e == Head(evs)
         IN  (IF IsSet(m, e.key)
              THEN << e.label \o ": " \o toFixed3(m[e.key])
                          \o " seconds (absolute time)" >>
                   \o (IF IsSet(m, e.rel)
                       THEN << "  - Time from app start: "
                                   \o toFixed3(m[e.rel]) \o " seconds" >>
                       ELSE << >>)
              ELSE << >>)
             \o ReportLifecycle(m, Tail(evs))

AbsoluteLine(v) == "  - Absolute time: " \o toFixed3(v) \o " seconds"

RelativeLine(v) == "  - Time from app start (t=0): " \o toFixed3(v) \o " seconds"

RECURSIVE ReportCustom(_, _)
ReportCustom(m, markers) ==
    IF markers = <<>> THEN << >>
    ELSE LET marker == Head(markers)
         IN  (IF IsSet(m, TsKey(marker))
              THEN << marker \o ":", AbsoluteLine(m[TsKey(marker)]) >>
                   \o (IF IsSet(m, RelKey(marker))
                       THEN << RelativeLine(m[RelKey(marker)]) >>
                       ELSE << >>)
              ELSE << marker \o ": Not found in trace" >>)
             \o ReportCustom(m, Tail(markers))

\* The lines of the start or of the end of a pair: the relative time is
\* printed whenever its key is defined.
ReportPairMarker(m, marker) ==
    IF IsSet(m, TsKey(marker))
    THEN << marker \o ":", AbsoluteLine(m[TsKey(marker)]) >>
         \o (IF Has(m, RelKey(marker))
             THEN << RelativeLine(m[RelKey(marker)]) >>
             ELSE << >>)
    ELSE << marker \o ": Not found in trace" >>

\* The duration line is recomputed from the two stored timestamps.
ReportDuration(m, pair) ==
    IF IsSet(m, TsKey(pair.start)) /\ IsSet(m, TsKey(pair.end))
    THEN "Duration of " \o pair.name \o ": "
             \o toFixed3(Minus(m[TsKey(pair.end)], m[TsKey(pair.start)]))
             \o " seconds"
    ELSE "Duration of " \o pair.name \o ": Could not be calculated"

RECURSIVE ReportPairs(_, _)
ReportPairs(m, pairs) ==
    IF pairs = <<>> THEN << >>
    ELSE LET pair == Head(pairs)
         IN  << "=== " \o pair.name \o " ===" >>
                 \o ReportPairMarker(m, pair.start)
                 \o ReportPairMarker(m, pair.end)
                 \o << ReportDuration(m, pair), "" >>
                 \o ReportPairs(m, Tail(pairs))

writeMetricsToFile(m, cfg) ==
    ReportHeader(m, cfg)
        \o << "== App Lifecycle Events ==" >>
        \o ReportLifecycle(m, LifecycleEvents)
        \o << "", "== Custom Markers ==" >>
        \o ReportCustom(m, cfg.customMarkers)
        \o (IF cfg.pairedMarkers # <<>>
            THEN << "", "== Paired Markers (Start/End) ==" >>
                     \o ReportPairs(m, cfg.pairedMarkers)
            ELSE << >>)

\* A variant in which an invocation goes on with the record of the previous
\* one.
NewMetrics_Kept(previous) == previous

\* const metrics: Record<string, number> = {}: every invocation starts from
\* an empty record, whatever the previous invocation left.
NewMetrics(previous) == NoMetrics

\* processTraceData up to the call of writeMetricsToFile, from the record m.
ExtractMetrics(m, text, cfg) ==
    LET a0 == AppStartLoop(text, cfg.appPackage)
        a1 == FirstMention(text, cfg.appPackage, a0)
        anchor == FirstTimestamp(text, a1)
        m1 == Put(m, "appStartTimestamp", anchor)
        m2 == LifecycleLoop(m1, text, LifecycleEvents)
        m3 == CustomLoop(m2, text, cfg.customMarkers)
        m4 == PairLoop(m3, text, cfg.pairedMarkers)
    IN  NormalizeAll(DeriveRelative(m4, cfg, anchor), cfg)

(***************************************************************************)
(* generateSummaryReport                                                   *)
(***************************************************************************)
\* The file does not exist: Deno.readTextFile throws and the file is skipped.
NoFile == << "<no such file>" >>

\* The first line at or after position i that is not blank, 0 without one.
NextNonBlank(content, i) ==
    LET J == {j \in i..Len(content) : ~IsBlank(content[j])}
    IN  IF J = {} THEN 0 ELSE CHOOSE j \in J : \A k \in J : j <= k

\* content.match(regex) for the regex that is `head`, then white space with
\* at least one line break (gap = 1) or the rest of the line and one whole
\* line more (gap = 2), then `\s*<label>([0-9.]+) seconds`.
TwoLineMatch(content, AtHead(_), gap, label) ==
    LET Hit(i) == LET j == NextNonBlank(content, i + gap)
                  IN  IF j = 0 THEN NoMatch
                      ELSE LET t == LTrim(content[j])
                           IN  IF StartsWith(t, label)
                               THEN CaptureSeconds(SubSeq(t, Len(label) + 1, Len(t)))
                               ELSE NoMatch
        I == {i \in DOMAIN content : AtHead(content[i]) /\ Hit(i).found}
    IN  IF I = {} THEN NoMatch ELSE Hit(CHOOSE i \in I : \A k \in I : i <= k)

\* new RegExp(`${marker}:\\s*\\n\\s*- Absolute time: ([0-9.]+) seconds`)
MatchAbsolute(content, marker) ==
    LET AtHead(line) == EndsWith(line, marker \o ":")
    IN  TwoLineMatch(content, AtHead, 1, "- Absolute time: ")

\* new RegExp(`${marker}:.*\\n.*\\n\\s*- Time from app start \\(t=0\\):
\*             ([0-9.]+) seconds`)
MatchRelative(content, marker) ==
    LET AtHead(line) == Contains(line, marker \o ":")
    IN  TwoLineMatch(content, AtHead, 2, "- Time from app start (t=0): ")

\* content.match(regex) for a regex `<label>([0-9.]+) seconds` within a line
LineMatch(content, label) ==
    LET I == {i \in DOMAIN content : CaptureAfter(content[i], label).found}
    IN  IF I = {} THEN NoMatch
        ELSE CaptureAfter(content[CHOOSE i \in I : \A k \in I : i <= k], label)

\* new RegExp(`Duration of ${pair.name}: ([0-9.]+) seconds`)
MatchDuration(content, name) ==
    LineMatch(content, "Duration of " \o name \o ": ")

\* /Activity Create: ([0-9.]+) seconds/ and its three siblings
MatchLifecycle(content, label) == LineMatch(content, label \o ": ")

\* allMetrics is a sequence of entries [key, values] in the order in which
\* the keys were first assigned (the order of `for (const key in allMetrics)`).
NoValues == << >>

KeysOf(all) == {all[i].key : i \in DOMAIN all}

ValuesOf(all, key) ==
    IF key \in KeysOf(all)
    THEN all[CHOOSE i \in DOMAIN all : all[i].key = key].values
    ELSE NoValues

AbsKey(name) == name \o "_absolute"

SumRelKey(name) == name \o "_relative"

DurKey(name) == name \o "_duration"

\* The matches the body of `for (const file of metricsFiles)` makes, in
\* program order, each with the key of allMetrics its value is pushed to.
Slot(key, kind, name) == [key |-> key, kind |-> kind, name |-> name]

RECURSIVE CustomSlots(_)
CustomSlots(markers) ==
    IF markers = <<>> THEN << >>
    ELSE << Slot(AbsKey(Head(markers)), "absolute", Head(markers)),
            Slot(SumRelKey(Head(markers)), "relative", Head(markers)) >>
         \o CustomSlots(Tail(markers))

RECURSIVE PairSlots(_)
PairSlots(pairs) ==
    IF pairs = <<>> THEN << >>
    ELSE LET pair == Head(pairs)
         IN  << Slot(AbsKey(pair.start), "absolute", pair.start),
                Slot(SumRelKey(pair.start), "relative", pair.start),
                Slot(AbsKey(pair.end), "absolute", pair.end),
                Slot(SumRelKey(pair.end), "relative", pair.end),
                Slot(DurKey(pair.name), "duration", pair.name) >>
             \o PairSlots(Tail(pairs))

LifecycleSlots ==
    [i \in DOMAIN LifecycleEvents |->
        Slot(LifecycleEvents[i].sum, "lifecycle", LifecycleEvents[i].label)]

FileSlots(cfg) ==
    CustomSlots(cfg.customMarkers) \o PairSlots(cfg.pairedMarkers)
        \o LifecycleSlots

SlotMatch(content, slot) ==
    CASE slot.kind = "absolute"  -> MatchAbsolute(content, slot.name)
      [] slot.kind = "relative"  -> MatchRelative(content, slot.name)
      [] slot.kind = "duration"  -> MatchDuration(content, slot.name)
      [] slot.kind = "lifecycle" -> MatchLifecycle(content, slot.name)

\* if (match) { ...; allMetrics[key].push(parseFloat(match[1])) }, for every
\* slot: the pushes one file gives rise to.
RECURSIVE FilePushes(_, _)
FilePushes(content, slots) ==
    IF slots = <<>> THEN << >>
    ELSE (IF SlotMatch(content, Head(slots)).found
          THEN << [key   |-> Head(slots).key,
                   value |-> SlotMatch(content, Head(slots)).value] >>
          ELSE << >>)
         \o FilePushes(content, Tail(slots))

\* The loop over metrics_1.txt .. metrics_<iterations>.txt, from file i on:
\* a file that cannot be read is skipped.
RECURSIVE AllPushes(_, _, _)
AllPushes(dir, i, cfg) ==
    IF i > cfg.iterations THEN << >>
    ELSE (IF dir[i] = NoFile THEN << >> ELSE FilePushes(dir[i], FileSlots(cfg)))
         \o AllPushes(dir, i + 1, cfg)

\* allMetrics after the pushes: a push to a key that is not there yet adds
\* the key after the others, every push appends to the list of its key.
Collected(pushes) ==
    LET First == {i \in DOMAIN pushes :
                     \A j \in 1..(i - 1) : pushes[j].key # pushes[i].key}
        Nth(n) == CHOOSE i \in First :
                      Cardinality({j \in First : j <= i}) = n
        ListOf(key) ==
            LET Same(p) == p.key = key
                sel == SelectSeq(pushes, Same)
            IN  [k \in DOMAIN sel |-> sel[k].value]
    IN  [n \in 1..Cardinality(First) |->
            [key |-> pushes[Nth(n)].key, values |-> ListOf(pushes[Nth(n)].key)]]

\* a + b for two numbers that are not negative
Add(a, b) ==
    LET u == a.U + b.U
        s == a.S + b.S + (u \div Base)
    IN  Num(a.M + b.M + (s \div Base), s % Base, u % Base)

\* a / n for a number that is not negative and a small positive integer n;
\* the part of the quotient below 10^-6 is dropped.
DivInt(a, n) ==
    LET s == (a.M % n) * Base + a.S
        u == (s % n) * Base + a.U
    IN  Num(a.M \div n, s \div n, u \div n)

RECURSIVE Insert(_, _)
Insert(sorted, v) ==
    IF sorted = <<>> THEN << v >>
    ELSE IF MagLess(v, Head(sorted)) THEN << v >> \o sorted
    ELSE << Head(sorted) >> \o Insert(Tail(sorted), v)

\* A variant of the sort that leaves the list as it is.
SortAscending_Not(list) == list

\* [...values].sort((a, b) => a - b), the values being numbers
RECURSIVE SortAscending(_)
SortAscending(list) ==
    IF list = <<>> THEN << >>
    ELSE Insert(SortAscending(Tail(list)), Head(list))

RECURSIVE SumOf(_)
SumOf(list) == IF list = <<>> THEN Zero ELSE Add(Head(list), SumOf(Tail(list)))

calculateStats(list) ==
    IF Len(list) = 0
    THEN [min |-> Zero, max |-> Zero, avg |-> Zero, median |-> Zero]
    ELSE LET sortedValues == SortAscending(list)
             n   == Len(sortedValues)
             mid == n \div 2
         IN  [min    |-> sortedValues[1],
              max    |-> sortedValues[n],
              avg    |-> DivInt(SumOf(sortedValues), n),
              median |-> IF n % 2 = 0
                         THEN DivInt(Add(sortedValues[mid], sortedValues[mid + 1]), 2)
                         ELSE sortedValues[mid + 1]]

\* The four lines of a statistic and the empty line after them.
StatLines(s, indent) ==
    << indent \o "- Min: " \o toFixed3(s.min) \o " seconds",
       indent \o "- Max: " \o toFixed3(s.max) \o " seconds",
       indent \o "- Avg: " \o toFixed3(s.avg) \o " seconds",
       indent \o "- Median: " \o toFixed3(s.median) \o " seconds",
       "" >>

\* A variant of the guard that takes every list as filled.
HasData_Always(all, key) == TRUE

\* allMetrics[key] && allMetrics[key].length > 0
HasData(all, key) == Len(ValuesOf(all, key)) > 0

\* The answers of the device to getprop are not modelled.
DeviceInfo == "Unknown"

SummaryHeader(cfg) ==
    << "===== Performance Summary Report =====",
       "Date: " \o DateText,
       "App Package: " \o cfg.appPackage,
       "App Activity: " \o (IF cfg.appActivity # "" THEN cfg.appActivity
                            ELSE cfg.appPackage \o ".MainActivity"),
       "Test Iterations: " \o ToString(cfg.iterations),
       "Run Mode: " \o RunMode(cfg),
       "",
       "Device Model: " \o DeviceInfo,
       "Android Version: " \o DeviceInfo,
       "" >>

RECURSIVE SummaryLifecycle(_, _)
SummaryLifecycle(all, evs) ==
    IF evs = <<>> THEN << >>
    ELSE (IF HasData(all, Head(evs).sum)
          THEN << Head(evs).label \o ":" >>
                   \o StatLines(calculateStats(ValuesOf(all, Head(evs).sum)), "  ")
          ELSE << >>)
         \o SummaryLifecycle(all, Tail(evs))

\* A statistic under its title, or the line that says there is none.
StatOrAbsent(all, key, title, absent, indent) ==
    IF HasData(all, key)
    THEN << indent \o title \o ":" >>
             \o StatLines(calculateStats(ValuesOf(all, key)), indent \o "  ")
    ELSE << indent \o absent, "" >>

AbsoluteAbsent == "Absolute Time: Not found in traces"

RelativeAbsent == "Time from App Start: Not found in traces"

DurationAbsent == "  Duration: Could not be calculated"

RECURSIVE SummaryCustom(_, _)
SummaryCustom(all, markers) ==
    IF markers = <<>> THEN << >>
    ELSE LET marker == Head(markers)
         IN  << "=== " \o marker \o " ===" >>
                 \o StatOrAbsent(all, AbsKey(marker), "Absolute Time",
                                 AbsoluteAbsent, "")
                 \o StatOrAbsent(all, SumRelKey(marker),
                                 "Time from App Start (t=0)", RelativeAbsent, "")
                 \o SummaryCustom(all, Tail(markers))

SummaryPairMarker(all, marker) ==
    << marker \o ":" >>
        \o StatOrAbsent(all, AbsKey(marker), "Absolute Time", AbsoluteAbsent, "  ")
        \o StatOrAbsent(all, SumRelKey(marker), "Time from App Start (t=0)",
                        RelativeAbsent, "  ")

SummaryDuration(all, pair) ==
    << "Duration (" \o pair.end \o " - " \o pair.start \o "):" >>
        \o (IF HasData(all, DurKey(pair.name))
            THEN StatLines(calculateStats(ValuesOf(all, DurKey(pair.name))), "  ")
            ELSE << DurationAbsent, "" >>)

RECURSIVE SummaryPairs(_, _)
SummaryPairs(all, pairs) ==
    IF pairs = <<>> THEN << >>
    ELSE LET pair == Head(pairs)
         IN  << "=== " \o pair.name \o " ===" >>
                 \o SummaryPairMarker(all, pair.start)
                 \o SummaryPairMarker(all, pair.end)
                 \o SummaryDuration(all, pair)
                 \o SummaryPairs(all, Tail(pairs))

RECURSIVE RawIterations(_, _)
RawIterations(list, k) ==
    IF k > Len(list) THEN << >>
    ELSE << "  - Iteration " \o ToString(k) \o ": " \o toFixed3(list[k])
                \o " seconds" >>
             \o RawIterations(list, k + 1)

RECURSIVE RawData(_)
RawData(all) ==
    IF all = <<>> THEN << >>
    ELSE (IF Len(Head(all).values) > 0
          THEN << Head(all).key \o ":" >>
                   \o RawIterations(Head(all).values, 1) \o << "" >>
          ELSE << >>)
         \o RawData(Tail(all))

\* The content generateSummaryReport writes for the lists it has collected.
SummaryContent(all, cfg) ==
    SummaryHeader(cfg)
        \o << "== App Lifecycle Events ==" >>
        \o SummaryLifecycle(all, LifecycleEvents)
        \o << "== Custom Markers ==" >>
        \o SummaryCustom(all, cfg.customMarkers)
        \o (IF cfg.pairedMarkers # <<>>
            THEN << "== Paired Markers ==" >> \o SummaryPairs(all, cfg.pairedMarkers)
            ELSE << >>)
        \o << "== Raw Data by Iteration ==" >>
        \o RawData(all)

(***************************************************************************)
(* The variables of the parts of the script that are not running           *)
(***************************************************************************)
NoConfig == [done |-> FALSE]

NoStats == [done |-> FALSE]

IdleConfig == [appPackage |-> PACKAGE_NAME]

ExtractIdle ==
    /\ traceContent = << >>
    /\ pc = "idle"
    /\ appStartTimestamp = Zero
    /\ metrics = NoMetrics
    /\ report = << >>

RunIdle ==
    /\ iteration = 0
    /\ traceFiles = << >>
    /\ files = << >>
    /\ runMetrics = << >>
    /\ allMetrics = << >>
    /\ summary = << >>
    /\ runPc = "idle"
    /\ calls = << >>
    /\ attempts = << >>
    /\ tracing = FALSE
    /\ summaries = 0

MainIdle ==
    /\ argv = << >>
    /\ envConfig = << >>
    /\ resolved = NoConfig

StatsIdle ==
    /\ values = << >>
    /\ stats = NoStats

AvdIdle ==
    /\ devices = << >>
    /\ deviceIndex = 0
    /\ installedPackages = {}
    /\ installs = << >>
    /\ successfulCreations = << >>
    /\ avdPc = "idle"

LogIdle ==
    /\ perfMetrics = << >>
    /\ stdoutLocked = FALSE
    /\ adbProcess = "none"
    /\ logPc = "idle"

AvgIdle ==
    /\ metricFiles = << >>
    /\ averaged = << >>
    /\ summaryText = << >>
    /\ avgPc = "idle"

ToolIdle == AvdIdle /\ LogIdle /\ AvgIdle

(***************************************************************************)
(* The steps of processTraceData, in program order                         *)
(***************************************************************************)
Init ==
    /\ traceContent \in SeqsUpTo(TraceLines, MaxLines)
    /\ config \in Configs
    /\ pc = "appStart"
    /\ appStartTimestamp = Zero
    /\ metrics = NoMetrics
    /\ report = << >>
    /\ RunIdle
    /\ MainIdle
    /\ StatsIdle
    /\ ToolIdle

ResolveAppStart ==
    /\ pc = "appStart"
    /\ appStartTimestamp' = AppStartLoop(traceContent, config.appPackage)
    /\ pc' = "firstMention"
    /\ UNCHANGED <<traceContent, config, metrics>>
    /\ UNCHANGED <<report, runVars, mainVars, statVars, toolVars>>

FirstMentionFallback ==
    /\ pc = "firstMention"
    /\ appStartTimestamp' =
           FirstMention(traceContent, config.appPackage, appStartTimestamp)
    /\ pc' = "firstTimestamp"
    /\ UNCHANGED <<traceContent, config, metrics>>
    /\ UNCHANGED <<report, runVars, mainVars, statVars, toolVars>>

FirstTimestampFallback ==
    /\ pc = "firstTimestamp"
    /\ appStartTimestamp' = FirstTimestamp(traceContent, appStartTimestamp)
    /\ metrics' = Put(metrics, "appStartTimestamp", appStartTimestamp')
    /\ pc' = "lifecycle"
    /\ UNCHANGED <<traceContent, config>>
    /\ UNCHANGED <<report, runVars, mainVars, statVars, toolVars>>

FindLifecycle ==
    /\ pc = "lifecycle"
    /\ metrics' = LifecycleLoop(metrics, traceContent, LifecycleEvents)
    /\ pc' = "custom"
    /\ UNCHANGED <<traceContent, config, appStartTimestamp>>
    /\ UNCHANGED <<report, runVars, mainVars, statVars, toolVars>>

FindCustomMarkers ==
    /\ pc = "custom"
    /\ metrics' = CustomLoop(metrics, traceContent, config.customMarkers)
    /\ pc' = "paired"
    /\ UNCHANGED <<traceContent, config, appStartTimestamp>>
    /\ UNCHANGED <<report, runVars, mainVars, statVars, toolVars>>

FindPairedMarkers ==
    /\ pc = "paired"
    /\ metrics' = PairLoop(metrics, traceContent, config.pairedMarkers)
    /\ pc' = "relative"
    /\ UNCHANGED <<traceContent, config, appStartTimestamp>>
    /\ UNCHANGED <<report, runVars, mainVars, statVars, toolVars>>

RelativeOffsets ==
    /\ pc = "relative"
    /\ metrics' = DeriveRelative(metrics, config, appStartTimestamp)
    /\ pc' = "normalize"
    /\ UNCHANGED <<traceContent, config, appStartTimestamp>>
    /\ UNCHANGED <<report, runVars, mainVars, statVars, toolVars>>

Normalize ==
    /\ pc = "normalize"
    /\ metrics' = NormalizeAll(metrics, config)
    /\ pc' = "write"
    /\ UNCHANGED <<traceContent, config, appStartTimestamp>>
    /\ UNCHANGED <<report, runVars, mainVars, statVars, toolVars>>

Next ==
    \/ ResolveAppStart
    \/ FirstMentionFallback
    \/ FirstTimestampFallback
    \/ FindLifecycle
    \/ FindCustomMarkers
    \/ FindPairedMarkers
    \/ RelativeOffsets
    \/ Normalize

Spec == Init /\ [][Next]_vars

(***************************************************************************)
(* runPerformanceTests                                                     *)
(***************************************************************************)
\* A report an earlier invocation left in the output directory.
StaleReport ==
    << "=== Performance Metrics ===",
       "App Package: com.example.app",
       "Run Mode: Cold",
       "Date: <earlier>",
       "",
       "App Start Timestamp (t=0): 8.000 seconds (absolute time)",
       "",
       "== App Lifecycle Events ==",
       "",
       "== Custom Markers ==",
       "js_init:",
       "  - Absolute time: 9.000 seconds",
       "  - Time from app start (t=0): 1.000 seconds",
       "",
       "== Paired Markers (Start/End) ==",
       "=== nav ===",
       "nav_start:",
       "  - Absolute time: 10.000 seconds",
       "  - Time from app start (t=0): 2.000 seconds",
       "nav_end:",
       "  - Absolute time: 15.000 seconds",
       "  - Time from app start (t=0): 7.000 seconds",
       "Duration of nav: 5.000 seconds",
       "" >>

\* A loop that clears the app data whatever the mode.
LoopEntry_AlwaysClear(i, cfg) ==
    IF i > cfg.iterations THEN "summary" ELSE "clear"

\* Where the loop `for (let i = 1; i <= config.iterations; i++)` goes with i.
LoopEntry(i, cfg) ==
    IF i > cfg.iterations THEN "summary"
    ELSE IF cfg.warmMode THEN "start" ELSE "clear"

\* The loop body is entered with i: `=== Running test iteration ${i} ===`.
Attempt(i) ==
    attempts' = IF i <= config.iterations THEN Append(attempts, i)
                ELSE attempts

\* A failed step that would leave the loop instead of its iteration.
NextIteration_LeavesLoop ==
    /\ iteration' = iteration + 1
    /\ runPc' = "summary"
    /\ attempts' = attempts

\* `continue`, and the end of the loop body: on to the next iteration.
NextIteration ==
    /\ iteration' = iteration + 1
    /\ runPc' = LoopEntry(iteration + 1, config)
    /\ Attempt(iteration + 1)

\* One call runPerformanceTests makes in iteration i: the helper called,
\* what it returned, and the trace file (path and text) it wrote or read.
Call(op, ok, arg) == [op |-> op, i |-> iteration, ok |-> ok, arg |-> arg]

\* `calls` keeps the calls of the iteration most recently begun, in order.
Invoke(call) ==
    calls' = IF calls # << >> /\ calls[1].i # iteration THEN <<call>>
             ELSE Append(calls, call)

RunInit ==
    /\ config \in RunConfigs
    /\ iteration = 1
    /\ traceFiles = << >>
    /\ files \in [1..config.iterations -> {NoFile, StaleReport}]
    /\ runMetrics = << >>
    /\ allMetrics = << >>
    /\ summary = << >>
    /\ runPc = "device"
    /\ calls = << >>
    /\ attempts = << >>
    /\ tracing = FALSE
    /\ summaries = 0
    /\ ExtractIdle
    /\ MainIdle
    /\ StatsIdle
    /\ ToolIdle

\* checkDeviceConnected: without a device the run ends at once.
CheckDeviceConnected ==
    /\ runPc = "device"
    /\ \E connected \in BOOLEAN :
           /\ runPc' = IF connected THEN LoopEntry(iteration, config)
                       ELSE "aborted"
           /\ attempts' = IF connected THEN <<iteration>> ELSE attempts
    /\ UNCHANGED <<iteration, traceFiles, files, runMetrics, allMetrics, summary>>
    /\ UNCHANGED <<calls, tracing, summaries>>
    /\ UNCHANGED <<traceContent, config, pc, appStartTimestamp, metrics, report>>
    /\ UNCHANGED <<mainVars, statVars, toolVars>>

ClearAppData ==
    /\ runPc = "clear"
    /\ \E success \in BOOLEAN :
           /\ Invoke(Call("clearAppData", success, << >>))
           /\ IF success
              THEN runPc' = "start" /\ UNCHANGED <<iteration, attempts>>
              ELSE NextIteration
    /\ UNCHANGED <<traceFiles, files, runMetrics, allMetrics, summary>>
    /\ UNCHANGED <<tracing, summaries>>
    /\ UNCHANGED <<traceContent, config, pc, appStartTimestamp, metrics, report>>
    /\ UNCHANGED <<mainVars, statVars, toolVars>>

StartTrace ==
    /\ runPc = "start"
    /\ \E success \in BOOLEAN :
           /\ Invoke(Call("startTrace", success, << >>))
           /\ tracing' = (tracing \/ success)
           /\ IF success
              THEN runPc' = "launch" /\ UNCHANGED <<iteration, attempts>>
              ELSE NextIteration
    /\ UNCHANGED <<traceFiles, files, runMetrics, allMetrics, summary>>
    /\ UNCHANGED summaries
    /\ UNCHANGED <<traceContent, config, pc, appStartTimestamp, metrics, report>>
    /\ UNCHANGED <<mainVars, statVars, toolVars>>

\* A launch whose failure would skip the rest of the iteration.
LaunchApp_SkipsIteration ==
    /\ runPc = "launch"
    /\ Invoke(Call("launchApp", FALSE, << >>))
    /\ NextIteration
    /\ UNCHANGED <<traceFiles, files, runMetrics, allMetrics, summary>>
    /\ UNCHANGED <<tracing, summaries>>
    /\ UNCHANGED <<traceContent, config, pc, appStartTimestamp, metrics, report>>
    /\ UNCHANGED <<mainVars, statVars, toolVars>>

\* launchApp, the wait of traceDuration seconds and takeScreenshot: none of
\* their results is looked at.
LaunchApp ==
    /\ runPc = "launch"
    /\ Invoke(Call("launchApp", TRUE, << >>))
    /\ runPc' = "stop"
    /\ UNCHANGED <<iteration, traceFiles, files, runMetrics, allMetrics, summary>>
    /\ UNCHANGED <<attempts, tracing, summaries>>
    /\ UNCHANGED <<traceContent, config, pc, appStartTimestamp, metrics, report>>
    /\ UNCHANGED <<mainVars, statVars, toolVars>>

\* A stopTrace whose result would not be looked at.
StopTrace_ResultIgnored ==
    /\ runPc = "stop"
    /\ \E success \in BOOLEAN : Invoke(Call("stopTrace", success, << >>))
    /\ runPc' = "pull"
    /\ tracing' = FALSE
    /\ UNCHANGED <<iteration, attempts, summaries>>
    /\ UNCHANGED <<traceFiles, files, runMetrics, allMetrics, summary>>
    /\ UNCHANGED <<traceContent, config, pc, appStartTimestamp, metrics, report>>
    /\ UNCHANGED <<mainVars, statVars, toolVars>>

StopTrace ==
    /\ runPc = "stop"
    /\ \E success \in BOOLEAN :
           /\ Invoke(Call("stopTrace", success, << >>))
           /\ IF success
              THEN runPc' = "pull" /\ UNCHANGED <<iteration, attempts>>
              ELSE NextIteration
    /\ tracing' = FALSE
    /\ UNCHANGED <<traceFiles, files, runMetrics, allMetrics, summary>>
    /\ UNCHANGED summaries
    /\ UNCHANGED <<traceContent, config, pc, appStartTimestamp, metrics, report>>
    /\ UNCHANGED <<mainVars, statVars, toolVars>>

\* `${config.outputDir}/trace_iteration_${i}.perfetto`: one path for each i.
localTracePath(i) == i

\* pullTraceFile: on success trace_iteration_<i>.perfetto holds the trace.
PullTraceFile ==
    /\ runPc = "pull"
    /\ \E success \in BOOLEAN :
           IF success
           THEN /\ \E text \in RunTraces :
                       /\ traceFiles' =
                              Put(traceFiles, localTracePath(iteration), text)
                       /\ Invoke(Call("pullTraceFile", TRUE,
                                      <<localTracePath(iteration), text>>))
                /\ runPc' = "process"
                /\ UNCHANGED <<iteration, attempts>>
           ELSE /\ NextIteration
                /\ Invoke(Call("pullTraceFile", FALSE, << >>))
                /\ traceFiles' = traceFiles
    /\ UNCHANGED <<files, runMetrics, allMetrics, summary>>
    /\ UNCHANGED <<tracing, summaries>>
    /\ UNCHANGED <<traceContent, config, pc, appStartTimestamp, metrics, report>>
    /\ UNCHANGED <<mainVars, statVars, toolVars>>

\* processTraceData(config, localTracePath, i) is entered: it reads the
\* trace file and starts from an empty record and from the anchor 0.  Its
\* steps are the ones above, from ResolveAppStart to Normalize.
EnterProcessTraceData ==
    /\ runPc = "process"
    /\ pc \in {"idle", "returned"}
    /\ traceContent' = traceFiles[localTracePath(iteration)]
    /\ appStartTimestamp' = Zero
    /\ metrics' = NewMetrics(metrics)
    /\ pc' = "appStart"
    /\ Invoke(Call("processTraceData", TRUE,
                   <<localTracePath(iteration), traceContent'>>))
    /\ UNCHANGED <<iteration, traceFiles, files, runMetrics, allMetrics,
                   summary, runPc, attempts, tracing, summaries>>
    /\ UNCHANGED <<config, report, mainVars, statVars, toolVars>>

\* await writeMetricsToFile(metricsPath, metrics, config): the report is
\* written to metrics_<i>.txt, and processTraceData returns.
WriteMetrics ==
    /\ runPc = "process"
    /\ pc = "write"
    /\ report' = writeMetricsToFile(metrics, config)
    /\ files' = [files EXCEPT ![iteration] = report']
    /\ runMetrics' = Put(runMetrics, iteration, metrics)
    /\ pc' = "returned"
    /\ NextIteration
    /\ UNCHANGED <<traceContent, config, appStartTimestamp, metrics>>
    /\ UNCHANGED <<traceFiles, allMetrics, summary, mainVars, statVars, toolVars>>
    /\ UNCHANGED <<calls, tracing, summaries>>

GenerateSummaryReport ==
    /\ runPc = "summary"
    /\ \E pushes \in {AllPushes(files, 1, config)} :
           allMetrics' = Collected(pushes)
    /\ summary' = SummaryContent(allMetrics', config)
    /\ runPc' = "done"
    /\ summaries' = summaries + 1
    /\ UNCHANGED <<iteration, traceFiles, files, runMetrics>>
    /\ UNCHANGED <<calls, attempts, tracing>>
    /\ UNCHANGED <<traceContent, config, pc, appStartTimestamp, metrics, report>>
    /\ UNCHANGED <<mainVars, statVars, toolVars>>

RunNext ==
    \/ CheckDeviceConnected
    \/ ClearAppData
    \/ StartTrace
    \/ LaunchApp
    \/ StopTrace
    \/ PullTraceFile
    \/ EnterProcessTraceData
    \/ ResolveAppStart
    \/ FirstMentionFallback
    \/ FirstTimestampFallback
    \/ FindLifecycle
    \/ FindCustomMarkers
    \/ FindPairedMarkers
    \/ RelativeOffsets
    \/ Normalize
    \/ WriteMetrics
    \/ GenerateSummaryReport

RunSpec == RunInit /\ [][RunNext]_vars

\* The positions of runPerformanceTests and of processTraceData.
RunPcs ==
    {"device", "clear", "start", "launch", "stop", "pull", "process",
     "summary", "done", "aborted"}

Pcs ==
    {"idle", "appStart", "firstMention", "firstTimestamp", "lifecycle",
     "custom", "paired", "relative", "normalize", "write", "returned"}

\* runPerformanceTests has not returned yet.
Running == runPc \notin {"done", "aborted"}

\* The statement the program stands at: every step of RunNext starts at one
\* of these positions, and no position belongs to two steps.
AtStatement ==
    \/ runPc \in {"device", "clear", "start", "launch", "stop", "pull",
                  "summary"}
    \/ runPc = "process" /\ pc \in Pcs \ {"idle", "returned"}
    \/ runPc = "process" /\ pc \in {"idle", "returned"}

position == <<runPc, pc, iteration>>

\* The program moves on from the statement it stands at.  Every step of
\* RunNext changes the position (runPc, pc or the loop variable).
ProgramAdvances ==
    /\ Running
    /\ \E r \in RunPcs, p \in Pcs, i \in {iteration, iteration + 1} :
           /\ <<r, p, i>> # position
           /\ runPc' = r
           /\ pc' = p
           /\ iteration' = i

\* runPerformanceTests is one sequential async function: each statement is
\* reached once the awaited call before it has settled (runCommand awaits
\* the adb command and catches its errors), so as long as the function has
\* not returned it moves on.
RunLiveSpec == RunInit /\ [][RunNext]_vars /\ WF_position(ProgramAdvances)

(***************************************************************************)
(* main: the options                                                       *)
(***************************************************************************)
\* alias: { p: "package", a: "activity", o: "output", ... }
Alias(letter) ==
    CASE letter = "p" -> "package"
      [] letter = "a" -> "activity"
      [] letter = "o" -> "output"
      [] letter = "h" -> "help"
      [] letter = "e" -> "env"
      [] letter = "m" -> "markers-config"
      [] letter = "w" -> "warm"
      [] OTHER -> letter

\* The key under which parseArgs files an option: the text after `--`, or
\* the alias of the letter after `-`.
OptionKey(token) ==
    IF StartsWith(token, "--") THEN SubSeq(token, 3, Len(token))
    ELSE Alias(SubSeq(token, 2, Len(token)))

BooleanOptions == {"help", "warm"}

\* parseArgs(Deno.args, ...): every option is followed by its value, but for
\* the boolean ones, which stand alone.  A value is kept as the text it is.
RECURSIVE parseArgs(_, _)
parseArgs(tokens, args) ==
    IF tokens = <<>> THEN args
    ELSE LET key == OptionKey(Head(tokens))
         IN  IF key \in BooleanOptions
             THEN parseArgs(Tail(tokens), Put(args, key, "true"))
             ELSE parseArgs(Tail(Tail(tokens)),
                            Put(args, key, Head(Tail(tokens))))

\* record[key], undefined being written as the empty text: both are falsy.
Get(record, key) == IF key \in DOMAIN record THEN record[key] ELSE ""

\* a || b
OrElse(a, b) == IF a # "" THEN a ELSE b

\* parseInt(text, 10)
parseInt(text) ==
    LET n == LeadingDigits(text)
    IN  IF n = 0 THEN NaN ELSE FromInt(StrToNat(SubSeq(text, 1, n)))

DefaultIterations == "3"

DefaultTraceDuration == "30"

DefaultOutputDir == "./performance_traces"

\* The config that main builds from the parsed options and the environment
\* file, as far as the five documented settings go.
ResolveConfig(args, env) ==
    [done          |-> TRUE,
     help          |-> FALSE,
     appPackage    |-> OrElse(Get(args, "package"),
                              OrElse(Get(env, "APP_PACKAGE"), PACKAGE_NAME)),
     appActivity   |-> OrElse(Get(args, "activity"),
                              OrElse(Get(env, "APP_ACTIVITY"), "")),
     iterations    |-> parseInt(OrElse(Get(args, "iterations"),
                              OrElse(Get(env, "ITERATIONS"), DefaultIterations))),
     traceDuration |-> parseInt(OrElse(Get(args, "traceDuration"),
                              OrElse(Get(env, "TRACE_DURATION"),
                                     DefaultTraceDuration))),
     outputDir     |-> OrElse(Get(args, "output"),
                              OrElse(Get(env, "OUTPUT_DIR"), DefaultOutputDir))]

\* config.appActivity || `${config.appPackage}.MainActivity`
ActivityName(cfg) ==
    OrElse(cfg.appActivity, cfg.appPackage \o ".MainActivity")

\* The ways to give, or not to give, each documented option on the command
\* line, and each setting in the environment file.
OptionForms ==
    << { << >>, << "--package", "com.cli.app" >>, << "-p", "com.cli.app" >> },
       { << >>, << "--activity", ".CliActivity" >>, << "-a", ".CliActivity" >> },
       { << >>, << "--iterations", "5" >> },
       { << >>, << "--trace-duration", "10" >> },
       { << >>, << "--output", "./cli_out" >>, << "-o", "./cli_out" >> },
       { << >>, << "--help" >> } >>

CommandLines ==
    { a \o b \o c \o d \o e \o f :
        a \in OptionForms[1], b \in OptionForms[2], c \in OptionForms[3],
        d \in OptionForms[4], e \in OptionForms[5], f \in OptionForms[6] }

EnvSettings ==
    << [key |-> "APP_PACKAGE",    value |-> "com.env.app"],
       [key |-> "APP_ACTIVITY",   value |-> ".EnvActivity"],
       [key |-> "ITERATIONS",     value |-> "7"],
       [key |-> "TRACE_DURATION", value |-> "20"],
       [key |-> "OUTPUT_DIR",     value |-> "./env_out"] >>

\* loadEnvConfig: the settings the environment file holds.
EnvFiles ==
    { [k \in {EnvSettings[i].key : i \in I} |->
          (CHOOSE s \in Range(EnvSettings) : s.key = k).value] :
      I \in SUBSET DOMAIN EnvSettings }

MainInit ==
    /\ argv \in CommandLines
    /\ envConfig \in EnvFiles
    /\ resolved = NoConfig
    /\ config = IdleConfig
    /\ ExtractIdle
    /\ RunIdle
    /\ StatsIdle
    /\ ToolIdle

\* main up to the call of runPerformanceTests; with --help it prints the
\* usage and returns.
Main ==
    /\ ~resolved.done
    /\ LET args == parseArgs(argv, << >>)
       IN  resolved' = IF Get(args, "help") # ""
                       THEN [done |-> TRUE, help |-> TRUE]
                       ELSE ResolveConfig(args, envConfig)
    /\ UNCHANGED <<argv, envConfig>>
    /\ UNCHANGED <<traceContent, config, pc, appStartTimestamp, metrics, report>>
    /\ UNCHANGED <<runVars, statVars, toolVars>>

MainNext == Main

MainSpec == MainInit /\ [][MainNext]_vars

(***************************************************************************)
(* calculateStats on its own                                               *)
(***************************************************************************)
StatValues ==
    { Num(0, 0, 800000), Num(0, 1, 0), Num(0, 1, 200000), Num(0, 2, 0),
      Num(0, 3, 0), Num(0, 4, 0) }

StatsInit ==
    /\ values \in SeqsUpTo(StatValues, MaxValues)
    /\ stats = NoStats
    /\ config = IdleConfig
    /\ ExtractIdle
    /\ RunIdle
    /\ MainIdle
    /\ ToolIdle

\* One call of calculateStats: values is the caller's list, which the
\* function copies before it sorts.
CalculateStats ==
    /\ ~stats.done
    /\ stats' = [done |-> TRUE, result |-> calculateStats(values)]
    /\ UNCHANGED values
    /\ UNCHANGED <<traceContent, config, pc, appStartTimestamp, metrics, report>>
    /\ UNCHANGED <<runVars, mainVars, toolVars>>

StatsNext == CalculateStats

StatsSpec == StatsInit /\ [][StatsNext]_vars


(***************************************************************************)
(* Properties of the MetricSet                                             *)
(***************************************************************************)
\* The MetricSet is complete: processTraceData is about to write it.
Done == pc = "write"

\* C1: in the final MetricSet, for every custom marker and every pair start
\* or end name M whose <M>Timestamp and appStartTimestamp are both set and
\* non-zero, timeTo<M> is the stored <M>Timestamp minus the stored
\* appStartTimestamp, rounded to 3 decimals.
C1_RelativeIsStoredDifference ==
    Done =>
        \A name \in MarkerNames(config) :
            (IsSet(metrics, TsKey(name)) /\ IsSet(metrics, "appStartTimestamp"))
                => /\ Has(metrics, RelKey(name))
                   /\ metrics[RelKey(name)] =
                          Round3(Minus(metrics[TsKey(name)],
                                       metrics["appStartTimestamp"]))

\* Some pattern of the list matches some line of the text.
Resolves(text, patterns) ==
    \E k \in DOMAIN patterns : \E i \in DOMAIN text :
        Matches(patterns[k], text[i])

\* C2: in the final MetricSet, for every pair whose start and end are both
\* set and non-zero, <name>Duration is the stored <end>Timestamp minus the
\* stored <start>Timestamp, rounded to 3 decimals.
C2_DurationIsStoredDifference ==
    Done =>
        \A p \in Range(config.pairedMarkers) :
            (IsSet(metrics, TsKey(p.start)) /\ IsSet(metrics, TsKey(p.end))
                /\ Has(metrics, p.name \o "Duration"))
                => metrics[p.name \o "Duration"] =
                       Round3(Minus(metrics[TsKey(p.end)],
                                    metrics[TsKey(p.start)]))

\* A timestamped line that names a lifecycle call of the package.
IsLifecycleLine(l, word, pkg) ==
    l.fmt = "atrace" /\ InOrder(Payload(l), <<word, pkg>>)

\* C3: whenever the trace holds a timestamped line with performCreate
\* (performStart, performResume, reportFullyDrawn) for the package, the final
\* MetricSet holds the matching activity*Timestamp, and it is the timestamp
\* of such a line.
C3_LifecycleMilestonesFound ==
    Done =>
        \A e \in Range(LifecycleEvents) :
            (\E i \in DOMAIN traceContent :
                 IsLifecycleLine(traceContent[i], e.word, config.appPackage))
                => /\ Has(metrics, e.key)
                   /\ \E i \in DOMAIN traceContent :
                          /\ IsLifecycleLine(traceContent[i], e.word,
                                             config.appPackage)
                          /\ metrics[e.key] = normalizeTimestamp(traceContent[i].ts)

\* The timestamp a line carries: the timestamp column of an atrace record,
\* the leading number of free text.
LineTimestamp(l) == IF l.fmt = "atrace" THEN l.ts ELSE l.lead

\* C4: for every custom marker M, <M>Timestamp is in the final MetricSet only
\* if some line of the trace contains the name M, and its value is then the
\* (normalized) timestamp of a line that contains M.
C4_MarkerOnlyFromItsLines ==
    Done =>
        \A m \in Range(config.customMarkers) :
            Has(metrics, TsKey(m))
                => \E i \in DOMAIN traceContent :
                       /\ Contains(FullText(traceContent[i]), m)
                       /\ metrics[TsKey(m)] =
                              normalizeTimestamp(LineTimestamp(traceContent[i]))

Min(S) == CHOOSE i \in S : \A j \in S : i <= j

\* The lines of the text that pattern p matches.
Hits(text, p) == {i \in DOMAIN text : Matches(p, text[i])}

\* The patterns of the list that match somewhere in the text.
Matching(text, patterns) == {k \in DOMAIN patterns : Hits(text, patterns[k]) # {}}

\* The timestamp of the first occurrence of the first pattern, in list order,
\* that matches anywhere in the text (some pattern does).
PriorityTimestamp(text, patterns) ==
    LET p == patterns[Min(Matching(text, patterns))]
    IN  Captured(p, text[Min(Hits(text, p))])

\* The loop over appStartPatterns is over.
AfterAppStartLoop == pc # "appStart"

\* The anchor is final: the pattern loop and both fallbacks are over.
AnchorResolved == pc \notin {"appStart", "firstMention", "firstTimestamp"}

\* C5 as stated: from the end of the pattern loop on, appStartTimestamp is the
\* timestamp of the first occurrence of the highest-priority pattern that
\* matches anywhere in the text, whatever the fallbacks find.
C5_FirstPatternWins ==
    AfterAppStartLoop =>
        LET P == appStartPatterns(config.appPackage)
        IN  Matching(traceContent, P) # {}
                => appStartTimestamp = PriorityTimestamp(traceContent, P)

\* C5 (amended): the same, when the timestamp of that occurrence is not 0; a
\* match at timestamp 0 counts as no match and leaves the fallbacks to decide.
C5_FirstNonZeroPatternWins ==
    AfterAppStartLoop =>
        LET P == appStartPatterns(config.appPackage)
            t == PriorityTimestamp(traceContent, P)
        IN  (Matching(traceContent, P) # {} /\ Truthy(t))
                => /\ appStartTimestamp = t
                   /\ Done => metrics["appStartTimestamp"] = normalizeTimestamp(t)

\* A line of a lower-priority pattern precedes a line of a higher-priority
\* pattern, and the anchor is the timestamp of the latter.
C5_Witness ==
    LET P == appStartPatterns(config.appPackage)
    IN  /\ Done
        /\ \E k1, k2 \in Matching(traceContent, P) :
               /\ k1 < k2
               /\ Min(Hits(traceContent, P[k2])) < Min(Hits(traceContent, P[k1]))
        /\ Truthy(appStartTimestamp)
        /\ appStartTimestamp = PriorityTimestamp(traceContent, P)

\* The atrace records of the text: the lines with a timestamp column.
Records(text) == {i \in DOMAIN text : text[i].fmt = "atrace"}

\* No pattern of appStartPatterns matches the text.
NoAppStartPattern ==
    \A i \in DOMAIN traceContent :
        \A p \in Range(appStartPatterns(config.appPackage)) :
            ~Matches(p, traceContent[i])

\* C6 as stated, lines being atrace records: when no pattern of
\* appStartPatterns matches, the anchor is the timestamp of the first record
\* that mentions the package; without such a record, the timestamp of the
\* first record; without any record, 0.
C6_FallbackFirstMention ==
    (AnchorResolved /\ NoAppStartPattern)
        => LET R == Records(traceContent)
               Q == {i \in R : Contains(FullText(traceContent[i]),
                                        config.appPackage)}
           IN  appStartTimestamp =
                   IF Q # {} THEN traceContent[Min(Q)].ts
                   ELSE IF R # {} THEN traceContent[Min(R)].ts
                   ELSE Zero

\* Does the line mention the package after its timestamp column?
MentionTable ==
    [l \in TraceLines |->
        l.fmt = "atrace" /\ Contains(Payload(l), PACKAGE_NAME)]

\* The records that mention the package after their timestamp column.
PayloadMentions(text) == {i \in DOMAIN text : MentionTable[text[i]]}

\* C6 (amended): when no pattern of appStartPatterns matches, the anchor is
\* the timestamp of the first record that mentions the package after its
\* timestamp column, if that timestamp is not 0; otherwise the timestamp of
\* the first record; without any record, 0.
C6_FallbackFirstPayloadMention ==
    (AnchorResolved /\ NoAppStartPattern)
        => LET R == Records(traceContent)
               Q == PayloadMentions(traceContent)
           IN  appStartTimestamp =
                   IF Q # {} /\ Truthy(traceContent[Min(Q)].ts)
                   THEN traceContent[Min(Q)].ts
                   ELSE IF R # {} THEN traceContent[Min(R)].ts
                   ELSE Zero

\* No pattern matches, two records mention the package at different times,
\* and the anchor is the time of the first of them, which is not the first
\* record of the trace.
C6_Witness ==
    LET Q == PayloadMentions(traceContent)
    IN  /\ Done
        /\ NoAppStartPattern
        /\ Q # {}
        /\ Min(Q) # Min(Records(traceContent))
        /\ traceContent[Min(Q)].ts # traceContent[Min(Records(traceContent))].ts
        /\ appStartTimestamp = traceContent[Min(Q)].ts

\* The absolute timestamp key and the relative key of every milestone, custom
\* marker and pair start or end name.
RelativePairs(cfg) ==
    {[key |-> e.key, rel |-> e.rel] : e \in Range(LifecycleEvents)}
        \cup {[key |-> TsKey(n), rel |-> RelKey(n)] : n \in MarkerNames(cfg)}

C8_DurationOnlyIfBothResolved ==
    Done =>
        \A p \in Range(config.pairedMarkers) :
            Has(metrics, p.name \o "Duration")
                => /\ Resolves(traceContent, pairPatterns(p.start))
                   /\ Resolves(traceContent, pairPatterns(p.end))

\* Exactly one side of a pair resolved, and there is no duration.
C8_Witness ==
    /\ Done
    /\ \E p \in Range(config.pairedMarkers) :
           /\ Resolves(traceContent, pairPatterns(p.start))
                  # Resolves(traceContent, pairPatterns(p.end))
           /\ ~Has(metrics, p.name \o "Duration")

\* The keys that hold absolute timestamps.
TimestampKeys(cfg) ==
    {"appStartTimestamp"}
        \cup {e.key : e \in Range(LifecycleEvents)}
        \cup {TsKey(n) : n \in MarkerNames(cfg)}

\* C9: the normalization step stores every absolute timestamp whose raw value
\* exceeds 1,000,000 as that value / 1,000,000 rounded to 3 decimals, and
\* leaves every other one unchanged.
C9_NormalizedOncePerKey ==
    [][pc = "normalize" =>
          \A key \in TimestampKeys(config) \cap DOMAIN metrics :
              metrics'[key] = normalizeTimestamp(metrics[key])]_vars

\* C10: if the normalization step converts any absolute timestamp of the
\* MetricSet from microseconds to seconds, it converts every absolute
\* timestamp of that MetricSet by the same factor.
C10_UniformNormalization ==
    [][pc = "normalize" =>
          LET K == {key \in TimestampKeys(config) \cap DOMAIN metrics :
                        Truthy(metrics[key])}
          IN  (\E key \in K : Greater(metrics[key], FromInt(MicrosThreshold)))
                  => \A key \in K :
                         metrics'[key] = Round3(DivMillion(metrics[key]))]_vars


(***************************************************************************)
(* Properties of a run of runPerformanceTests and of its summary           *)
(***************************************************************************)
\* generateSummaryReport has written summary_report.txt.
RunDone == runPc = "done"

\* The iterations of this invocation that reached processTraceData.
Processed == DOMAIN runMetrics

\* The entry of the summary that belongs to a key of the MetricSet: the
\* name under which generateSummaryReport files the values of that metric
\* ("" where it files none).
SummaryKey(key, cfg) ==
    IF \E name \in MarkerNames(cfg) : key = TsKey(name)
    THEN AbsKey(CHOOSE name \in MarkerNames(cfg) : key = TsKey(name))
    ELSE IF \E name \in MarkerNames(cfg) : key = RelKey(name)
    THEN SumRelKey(CHOOSE name \in MarkerNames(cfg) : key = RelKey(name))
    ELSE IF \E p \in Range(cfg.pairedMarkers) : key = p.name \o "Duration"
    THEN DurKey((CHOOSE p \in Range(cfg.pairedMarkers) :
                     key = p.name \o "Duration").name)
    ELSE IF \E e \in Range(LifecycleEvents) : key = e.key
    THEN (CHOOSE e \in Range(LifecycleEvents) : key = e.key).sum
    ELSE ""

\* The values, to 3 decimals, of a key in the MetricSets of the iterations
\* from i on that produced it.
RECURSIVE Produced(_, _, _)
Produced(sets, key, i) ==
    IF i > MaxIterations THEN << >>
    ELSE (IF i \in DOMAIN sets /\ key \in DOMAIN sets[i]
          THEN << Round3(sets[i][key]) >>
          ELSE << >>)
         \o Produced(sets, key, i + 1)

\* C11: once the summary is written, every metric key that the MetricSet of
\* at least one run contains has an entry in the summary, and the values the
\* statistics of that entry are computed over are exactly the values of the
\* runs that produced the key.
C11_EveryMetricAggregated ==
    RunDone =>
        \A i \in Processed : \A key \in DOMAIN runMetrics[i] :
            /\ HasData(allMetrics, SummaryKey(key, config))
            /\ ValuesOf(allMetrics, SummaryKey(key, config))
                   = Produced(runMetrics, key, 1)

\* No run of this invocation produced a value for the key.
NoRunProduced(key) == \A i \in Processed : ~Has(runMetrics[i], key)

\* A line that opens a section of the summary / a part of a pair's section.
TopHead(line) == StartsWith(line, "==")

SubHead(line) == line # "" /\ ~StartsWith(line, " ")

\* The content has the line `line` in the part that the line `head` opens.
InSection(content, head, line, IsHead(_)) ==
    \E i \in DOMAIN content : \E j \in DOMAIN content :
        /\ i < j
        /\ content[i] = head
        /\ content[j] = line
        /\ \A k \in (i + 1)..(j - 1) : ~IsHead(content[k])

CustomHead(marker) == "=== " \o marker \o " ==="

DurationHead(pair) == "Duration (" \o pair.end \o " - " \o pair.start \o "):"

\* C12: once the summary is written, every metric the summary reports on
\* that no run produced a value for has an explicit not-found entry: a line
\* naming each such lifecycle event, and the not-found line under each such
\* custom marker time, pair start or end time, and pair duration.
C12_AbsentMetricsMarked ==
    RunDone =>
        /\ \A e \in Range(LifecycleEvents) :
               NoRunProduced(e.key) =>
                   \E i \in DOMAIN summary : StartsWith(summary[i], e.label)
        /\ \A m \in Range(config.customMarkers) :
               /\ NoRunProduced(TsKey(m)) =>
                      InSection(summary, CustomHead(m), AbsoluteAbsent, TopHead)
               /\ NoRunProduced(RelKey(m)) =>
                      InSection(summary, CustomHead(m), RelativeAbsent, TopHead)
        /\ \A p \in Range(config.pairedMarkers) :
               /\ \A m \in {p.start, p.end} :
                      /\ NoRunProduced(TsKey(m)) =>
                             InSection(summary, m \o ":",
                                       "  " \o AbsoluteAbsent, SubHead)
                      /\ NoRunProduced(RelKey(m)) =>
                             InSection(summary, m \o ":",
                                       "  " \o RelativeAbsent, SubHead)
               /\ NoRunProduced(p.name \o "Duration") =>
                      InSection(summary, DurationHead(p), DurationAbsent, SubHead)

\* None of metrics_1.txt .. metrics_<iterations>.txt can be read: the
\* summary is made from an empty list of reports.
NoReport == \A i \in 1..config.iterations : files[i] = NoFile

\* A line of a statistic: a minimum, a maximum, an average or a median.
IsStatLine(line) ==
    \/ Contains(line, "- Min: ")
    \/ Contains(line, "- Max: ")
    \/ Contains(line, "- Avg: ")
    \/ Contains(line, "- Median: ")

\* C13: when there is no report of any run to read, generateSummaryReport
\* still writes the summary; under every declared custom marker and every
\* declared pair the summary has the explicit not-found lines, and it
\* prints no statistic at all (so none with value 0).
C13_EmptyInputMarkedNoData ==
    (RunDone /\ NoReport) =>
        /\ summary # << >>
        /\ \A m \in Range(config.customMarkers) :
               /\ InSection(summary, CustomHead(m), AbsoluteAbsent, TopHead)
               /\ InSection(summary, CustomHead(m), RelativeAbsent, TopHead)
        /\ \A p \in Range(config.pairedMarkers) :
               /\ \A m \in {p.start, p.end} :
                      /\ InSection(summary, m \o ":",
                                   "  " \o AbsoluteAbsent, SubHead)
                      /\ InSection(summary, m \o ":",
                                   "  " \o RelativeAbsent, SubHead)
               /\ InSection(summary, DurationHead(p), DurationAbsent, SubHead)
        /\ \A i \in DOMAIN summary : ~IsStatLine(summary[i])

\* C13 witness: a run with a custom marker and a pair in which every
\* iteration was skipped has written its summary from no report.
C13_Witness ==
    /\ RunDone
    /\ NoReport
    /\ Processed = {}
    /\ config.iterations > 1
    /\ config.customMarkers # << >>
    /\ config.pairedMarkers # << >>
    /\ AbsoluteAbsent \in Range(summary)

(***************************************************************************)
(* Properties of calculateStats                                            *)
(***************************************************************************)
\* a <= b for numbers that are not negative
AtMost(a, b) == ~MagLess(b, a)

\* n * a for a number that is not negative and a small natural number n
MulInt(a, n) ==
    LET u == a.U * n
        s == a.S * n + (u \div Base)
    IN  Num(a.M * n + (s \div Base), s % Base, u % Base)

\* The k-th smallest value of a list, repeated values counted each time.
Kth(list, k) ==
    CHOOSE v \in Range(list) :
        /\ Cardinality({i \in DOMAIN list : MagLess(list[i], v)}) <= k - 1
        /\ Cardinality({i \in DOMAIN list : AtMost(list[i], v)}) >= k

\* The list with the values at positions i and j exchanged.
Swapped(list, i, j) ==
    [k \in DOMAIN list |-> IF k = i THEN list[j]
                           ELSE IF k = j THEN list[i] ELSE list[k]]

\* The result r is what the claim says of the list: the smallest and the
\* largest value, the mean (to the 10^-6 the numbers are kept to), and the
\* middle value or the mean of the two middle values.
IsStatsOf(r, list) ==
    LET n == Len(list)
    IN  /\ r.min \in Range(list)
        /\ \A v \in Range(list) : AtMost(r.min, v)
        /\ r.max \in Range(list)
        /\ \A v \in Range(list) : AtMost(v, r.max)
        /\ AtMost(MulInt(r.avg, n), SumOf(list))
        /\ MagLess(SumOf(list), Add(MulInt(r.avg, n), Num(0, 0, n)))
        /\ IF n % 2 = 1
           THEN r.median = Kth(list, (n + 1) \div 2)
           ELSE MulInt(r.median, 2)
                    = Add(Kth(list, n \div 2), Kth(list, n \div 2 + 1))

\* C14: for every non-empty list, the result of calculateStats is the
\* smallest value, the largest value, the arithmetic mean and the median
\* (middle value, or mean of the two middle values) of the list; exchanging
\* any two values of the list gives the same result, so the result does not
\* depend on the order of the list; and no step modifies the list.
C14_StatsOfAnyOrder ==
    /\ [](stats.done /\ Len(values) > 0 =>
              /\ IsStatsOf(stats.result, values)
              /\ \A i \in DOMAIN values : \A j \in DOMAIN values :
                     calculateStats(Swapped(values, i, j)) = stats.result)
    /\ [][values' = values]_vars

\* C14 witness: the unsorted list 3, 1, 4, 2 has given min 1, max 4,
\* avg 2.5 and median 2.5.
C14_Witness ==
    /\ stats.done
    /\ values = << Num(0, 3, 0), Num(0, 1, 0), Num(0, 4, 0), Num(0, 2, 0) >>
    /\ stats.result = [min |-> Num(0, 1, 0), max |-> Num(0, 4, 0),
                       avg |-> Num(0, 2, 500000), median |-> Num(0, 2, 500000)]

(***************************************************************************)
(* Properties of the marker specifications                                 *)
(***************************************************************************)
\* A paired marker without a start name or without an end name.
InvalidPair(pair) == pair.start = "" \/ pair.end = ""

InvalidMarkers(cfg) == \E p \in Range(cfg.pairedMarkers) : InvalidPair(p)

\* C15: markers with an invalid pair are rejected before any extraction
\* uses them: with such markers processTraceData is never entered, so no
\* pattern is built from the pair and no MetricSet is made with it.
C15_InvalidMarkersRejected ==
    InvalidMarkers(config) => (pc = "idle" /\ Processed = {})

(***************************************************************************)
(* Properties of processTraceData on any trace text                        *)
(***************************************************************************)
\* Nothing in the text gives an anchor: no pattern of appStartPatterns
\* matches, no line mentions the package, no line starts with a timestamp.
AnchorUnmatched ==
    /\ NoAppStartPattern
    /\ \A i \in DOMAIN traceContent :
           /\ ~Matches(Pat("mention", <<config.appPackage>>), traceContent[i])
           /\ ~Matches(Pat("prefix", <<>>), traceContent[i])

\* The patterns that are tried for a name: those of a custom marker, those
\* of the start or end of a pair, or both.
RolePatterns(cfg, name) ==
    (IF name \in Range(cfg.customMarkers)
     THEN Range(customPatterns(name)) ELSE {})
        \cup (IF \E p \in Range(cfg.pairedMarkers) : name \in {p.start, p.end}
              THEN Range(pairPatterns(name)) ELSE {})

\* No pattern tried for the name matches a line of the text.
NameUnmatched(name) ==
    \A p \in RolePatterns(config, name) : \A i \in DOMAIN traceContent :
        ~Matches(p, traceContent[i])

\* Every marker, lifecycle event and pair that the text does not resolve
\* has no key in the MetricSet.
UnmatchedItemsAbsent ==
    /\ \A name \in MarkerNames(config) :
           NameUnmatched(name) =>
               ~Has(metrics, TsKey(name)) /\ ~Has(metrics, RelKey(name))
    /\ \A e \in Range(LifecycleEvents) :
           ~Resolves(traceContent, << lifecyclePattern(e.word) >>) =>
               ~Has(metrics, e.key) /\ ~Has(metrics, e.rel)
    /\ \A p \in Range(config.pairedMarkers) :
           (NameUnmatched(p.start) \/ NameUnmatched(p.end)) =>
               ~Has(metrics, p.name \o "Duration")

\* C16 as stated: in the final MetricSet every unresolved item, the anchor
\* included, is represented by an absent key.
C16_UnresolvedIsAbsent ==
    Done =>
        /\ AnchorUnmatched => ~Has(metrics, "appStartTimestamp")
        /\ UnmatchedItemsAbsent

\* C16 (amended): for any trace text, in the complete MetricSet every
\* marker, lifecycle event and pair that no pattern matches is represented
\* by absent keys, while the anchor always has its key: appStartTimestamp
\* is 0 when nothing in the text gives an anchor.
C16_UnresolvedAbsentAnchorZero ==
    Done =>
        /\ Has(metrics, "appStartTimestamp")
        /\ AnchorUnmatched => metrics["appStartTimestamp"] = Zero
        /\ UnmatchedItemsAbsent

\* C16 witness: a text of lines without any timestamp, with a custom marker
\* and a pair declared, has given a MetricSet that holds nothing but
\* appStartTimestamp = 0.
C16_Witness ==
    /\ Done
    /\ traceContent # << >>
    /\ AnchorUnmatched
    /\ config.customMarkers # << >>
    /\ config.pairedMarkers # << >>
    /\ metrics = Put(NoMetrics, "appStartTimestamp", Zero)

(***************************************************************************)
(* Properties of processTraceData as a function of its inputs              *)
(***************************************************************************)
\* C17: the MetricSet of every processed iteration is the extraction, from
\* an empty record, of that iteration's trace text under the config's
\* appPackage, customMarkers and pairedMarkers, whatever was processed
\* before, whatever the output directory held and whatever the other
\* settings (iterations, warm mode) are; so two iterations with the same
\* trace text have the same MetricSet.  No step changes the
\* config, and the steps of processTraceData leave the trace files alone.
C17_MetricSetFunctionOfInputs ==
    /\ [](\A i \in Processed :
              /\ runMetrics[i] =
                     ExtractMetrics(NoMetrics, traceFiles[i],
                                    Cfg(config.customMarkers,
                                        config.pairedMarkers, 1, FALSE))
              /\ \A j \in Processed :
                     traceFiles[i] = traceFiles[j] => runMetrics[i] = runMetrics[j])
    /\ [][/\ config' = config
          /\ runPc = "process" => traceFiles' = traceFiles]_vars

\* C17 witness: two iterations were processed, the second on the same trace
\* text as the first, a text that resolves markers, after the first had
\* left its record behind.
C17_Witness ==
    /\ RunDone
    /\ Processed = {1, 2}
    /\ traceFiles[1] = traceFiles[2]
    /\ Has(runMetrics[2], TsKey("js_init"))
    /\ runMetrics[1] = runMetrics[2]

(***************************************************************************)
(* Properties of the duration of a pair, from the MetricSet to the summary *)
(***************************************************************************)
\* In the MetricSet m the end of the pair lies before its start.
EndsBeforeStart(m, pair) ==
    /\ IsSet(m, TsKey(pair.start))
    /\ IsSet(m, TsKey(pair.end))
    /\ MagLess(m[TsKey(pair.end)], m[TsKey(pair.start)])

DurationLine(pair, v) ==
    "Duration of " \o pair.name \o ": " \o toFixed3(v) \o " seconds"

\* C18: for every processed iteration and every pair whose end resolved to
\* an earlier timestamp than its start, <name>Duration in the MetricSet is
\* negative, the report of the run has the duration line with that negative
\* value, and, once the summary is written, the list of values behind the
\* pair's duration statistics contains that value.
C18_NegativeDurationSurfaced ==
    \A i \in Processed : \A p \in Range(config.pairedMarkers) :
        EndsBeforeStart(runMetrics[i], p) =>
            /\ Has(runMetrics[i], p.name \o "Duration")
            /\ runMetrics[i][p.name \o "Duration"].neg
            /\ DurationLine(p, runMetrics[i][p.name \o "Duration"])
                   \in Range(files[i])
            /\ RunDone =>
                   Round3(runMetrics[i][p.name \o "Duration"])
                       \in Range(ValuesOf(allMetrics, DurKey(p.name)))

(***************************************************************************)
(* Properties of the input of the summary                                  *)
(***************************************************************************)
\* The output directory as it would be with only the reports that this
\* invocation wrote.
OwnReports ==
    [i \in 1..config.iterations |->
        IF i \in Processed THEN files[i] ELSE NoFile]

\* C19: the lists of values behind the statistics of the summary are the
\* ones collected from the reports of the iterations of this invocation
\* that reached processTraceData, and from nothing else: an iteration that
\* was skipped contributes no value, whatever the output directory held
\* before the run.
C19_OnlyThisInvocation ==
    RunDone => allMetrics = Collected(AllPushes(OwnReports, 1, config))

(***************************************************************************)
(* Properties of the options of main                                       *)
(***************************************************************************)
\* The value that the documentation gives a setting: the text after the
\* first of the setting's documented options on the command line; without
\* such an option the value in the environment file; without that the
\* documented default.
Documented(options, envKey, default) ==
    LET I == {i \in DOMAIN argv : argv[i] \in options}
    IN  IF I # {} THEN argv[Min(I) + 1]
        ELSE IF envKey \in DOMAIN envConfig THEN envConfig[envKey]
        ELSE default

DocumentedPackage ==
    Documented({"--package", "-p"}, "APP_PACKAGE", "com.example.app")

\* C20: when main has built its config, package, activity, iterations,
\* trace duration and output directory each have the value of the
\* documented command-line option if it was given, else the value of the
\* environment file, else the documented default.
C20_DocumentedOptionsHonoured ==
    (resolved.done /\ ~resolved.help) =>
        /\ resolved.appPackage = DocumentedPackage
        /\ ActivityName(resolved) =
               Documented({"--activity", "-a"}, "APP_ACTIVITY",
                          DocumentedPackage \o ".MainActivity")
        /\ resolved.iterations =
               parseInt(Documented({"--iterations"}, "ITERATIONS", "3"))
        /\ resolved.traceDuration =
               parseInt(Documented({"--trace-duration"}, "TRACE_DURATION", "30"))
        /\ resolved.outputDir =
               Documented({"--output", "-o"}, "OUTPUT_DIR", "./performance_traces")

(***************************************************************************)
(* C21: in warm mode no iteration calls clearAppData; in cold mode every   *)
(* iteration calls clearAppData before anything else, and an iteration     *)
(* whose clearAppData failed calls nothing else: no startTrace, launchApp, *)
(* stopTrace, pullTraceFile or processTraceData.                           *)
(***************************************************************************)
\* The iteration the recorded calls belong to is over.
IterationEnded == calls # << >> /\ calls[1].i < iteration

\* The loop stands between two iterations, or behind the last one.
BetweenIterations ==
    /\ iteration > 1
    /\ runPc \in {"clear", "start", "summary", "done"}
    /\ calls = << >> \/ calls[1].i < iteration

Called(op) == \E k \in DOMAIN calls : calls[k].op = op

C21_ClearOnlyWhenCold ==
    /\ config.warmMode => ~Called("clearAppData")
    /\ ~config.warmMode =>
          /\ calls # << >> => calls[1].op = "clearAppData"
          /\ BetweenIterations =>
                calls # << >> /\ calls[1].i = iteration - 1
          /\ (calls # << >> /\ ~calls[1].ok) => Len(calls) = 1

\* Cold mode: iteration 1 ended on a failed clearAppData.
C21_Witness ==
    /\ ~config.warmMode
    /\ iteration = 2
    /\ runPc = "clear"
    /\ calls = << [op |-> "clearAppData", i |-> 1, ok |-> FALSE,
                   arg |-> << >>] >>

(***************************************************************************)
(* C26: every iteration in which startTrace succeeded calls stopTrace      *)
(* before the iteration ends, and startTrace is never called while a trace *)
(* started in an earlier iteration has not been followed by a stopTrace    *)
(* call.                                                                   *)
(***************************************************************************)
StoppedAfter(k) ==
    \E j \in DOMAIN calls : j > k /\ calls[j].op = "stopTrace"

C26_TraceAlwaysStopped ==
    /\ IterationEnded =>
          \A k \in DOMAIN calls :
              (calls[k].op = "startTrace" /\ calls[k].ok) => StoppedAfter(k)
    /\ runPc \in {"clear", "start", "summary", "done", "aborted"} => ~tracing

\* A second iteration is about to start its trace after the first one
\* started a trace and failed to stop it.
C26_Witness ==
    /\ runPc = "start"
    /\ iteration = 2
    /\ IterationEnded
    /\ \E k \in DOMAIN calls : calls[k].op = "startTrace" /\ calls[k].ok
    /\ \E k \in DOMAIN calls : calls[k].op = "stopTrace" /\ ~calls[k].ok

(***************************************************************************)
(* C27: processTraceData is called for an iteration only after, in this    *)
(* order, clearAppData succeeded (cold mode only), startTrace succeeded,   *)
(* launchApp was issued, stopTrace succeeded and pullTraceFile succeeded   *)
(* in that iteration; it is called at most once per iteration, and on the  *)
(* trace file pulled in that same iteration.                               *)
(***************************************************************************)
StepsBeforeProcessing ==
    IF config.warmMode
    THEN <<"startTrace", "launchApp", "stopTrace", "pullTraceFile">>
    ELSE <<"clearAppData", "startTrace", "launchApp", "stopTrace",
           "pullTraceFile">>

C27_ProcessedAfterAllSteps ==
    \A k \in DOMAIN calls :
        calls[k].op = "processTraceData" =>
            /\ k = Len(StepsBeforeProcessing) + 1
            /\ \A j \in 1..(k - 1) :
                   /\ calls[j].op = StepsBeforeProcessing[j]
                   /\ calls[j].ok
                   /\ calls[j].i = calls[k].i
            /\ calls[k].arg = calls[k - 1].arg
            /\ calls[k].arg[1] = localTracePath(calls[k].i)
            /\ traceContent = calls[k].arg[2]

\* The second iteration of a cold run is being processed.
C27_Witness ==
    /\ ~config.warmMode
    /\ iteration = 2
    /\ pc = "lifecycle"
    /\ Len(calls) = 6
    /\ calls[6].op = "processTraceData"
    /\ calls[6].arg[2] # << >>

(***************************************************************************)
(* C30: with a device connected, exactly config.iterations iterations are  *)
(* attempted, in increasing order; a failed step ends only its own         *)
(* iteration; and generateSummaryReport is eventually called, exactly      *)
(* once.  Without a device no iteration is attempted and no summary is     *)
(* generated.                                                              *)
(***************************************************************************)
AllIterations == [i \in 1..config.iterations |-> i]

AttemptsInOrder ==
    /\ Len(attempts) <= config.iterations
    /\ \A k \in DOMAIN attempts : attempts[k] = k

DeviceConnected == runPc \notin {"device", "aborted"}

C30_RunTerminatesWithOneSummary ==
    /\ [](Running => AtStatement)
    /\ [](AttemptsInOrder /\ summaries <= 1)
    /\ [](summaries = 1 => attempts = AllIterations)
    /\ [](runPc = "aborted" =>
              attempts = << >> /\ calls = << >> /\ summaries = 0
              /\ summary = << >>)
    /\ (DeviceConnected ~> (runPc = "done" /\ summaries = 1))
    /\ [](runPc = "done" => [](runPc = "done" /\ summaries = 1))

\* A run of two iterations is over: the first one failed at some step, the
\* second one was processed, and the summary was generated.
C30_Witness ==
    /\ runPc = "done"
    /\ summaries = 1
    /\ config.iterations = 2
    /\ attempts = <<1, 2>>
    /\ DOMAIN runMetrics = {2}

(***************************************************************************)
(* C25: in the section "Raw Data by Iteration" of the summary, the value   *)
(* listed under `Iteration k` of a metric is the value that metric had in  *)
(* test iteration k, also when some iterations failed or did not record    *)
(* the metric.                                                             *)
(***************************************************************************)
RawLabel(k) == "  - Iteration " \o ToString(k) \o ": "

RawLine(k, value) == RawLabel(k) \o toFixed3(value) \o " seconds"

\* A line of the raw data that is not one of the lines of an iteration.
RawHead(line) == ~StartsWith(line, "  - Iteration ")

\* Iteration k of this invocation recorded, under the entry `entry` of the
\* summary, the value that the line shows.
RecordedInIteration(k, entry, line) ==
    /\ k \in Processed
    /\ \E key \in DOMAIN runMetrics[k] :
           /\ SummaryKey(key, config) = entry
           /\ line = RawLine(k, Round3(runMetrics[k][key]))

C25_RawDataLabelledByIteration ==
    RunDone =>
        \A n \in DOMAIN allMetrics : \A k \in 1..MaxIterations :
            \A j \in DOMAIN summary :
                (/\ StartsWith(summary[j], RawLabel(k))
                 /\ InSection(summary, allMetrics[n].key \o ":", summary[j],
                              RawHead))
                    => RecordedInIteration(k, allMetrics[n].key, summary[j])

(***************************************************************************)
(* C29: normalizeTimestamp leaves a value it has produced unchanged, so    *)
(* the normalization step gives a `<name>Timestamp` key that two marker    *)
(* entries share (a custom marker and a pair, or two pairs), and that is   *)
(* therefore normalized once per mention, the value one normalization      *)
(* gives.                                                                  *)
(***************************************************************************)
\* The entries of the configuration that mention the marker `name`.
Mentions(cfg, name) ==
    Cardinality({i \in DOMAIN cfg.customMarkers : cfg.customMarkers[i] = name})
        + Cardinality({i \in DOMAIN cfg.pairedMarkers :
                           cfg.pairedMarkers[i].start = name})
        + Cardinality({i \in DOMAIN cfg.pairedMarkers :
                           cfg.pairedMarkers[i].end = name})

SharedKeys(cfg) == {TsKey(n) : n \in {m \in MarkerNames(cfg) : Mentions(cfg, m) > 1}}

C29_NormalizationIdempotent ==
    [][pc = "normalize" =>
          /\ \A key \in TimestampKeys(config) \cap DOMAIN metrics :
                 normalizeTimestamp(normalizeTimestamp(metrics[key]))
                     = normalizeTimestamp(metrics[key])
          /\ \A key \in SharedKeys(config) \cap DOMAIN metrics :
                 metrics'[key] = normalizeTimestamp(metrics[key])]_vars

(***************************************************************************)
(* The report of one run, written by writeMetricsToFile and read back by   *)
(* the body of the loop over the metrics files in generateSummaryReport    *)
(***************************************************************************)
\* Marker names of which one ends with another, one starts with another,
\* and names that have nothing in common.
ReportConfigs ==
    { Cfg(<<"js_init", "init">>, << >>, 1, FALSE),
      Cfg(<<"init", "js_init">>, << >>, 1, FALSE),
      Cfg(<<"js", "js_init">>, << >>, 1, FALSE),
      Cfg(<<"js_init">>, <<NavPair>>, 1, FALSE) }

\* The MetricSet of a run that started at TA and found the markers of
\* DOMAIN found, each at the time `found` gives it.
MetricsFound(found, cfg) ==
    LET names == DOMAIN found
        stamps == [key \in {"appStartTimestamp"} \cup {TsKey(n) : n \in names} |->
                      IF key = "appStartTimestamp" THEN TA
                      ELSE found[CHOOSE n \in names : TsKey(n) = key]]
    IN  DeriveRelative(stamps, cfg, TA)

ReportInit ==
    /\ config \in ReportConfigs
    /\ \E names \in SUBSET MarkerNames(config) :
       \E found \in [names -> {TB, TC, TD}] :
       \E m \in {MetricsFound(found, config)} : metrics = m
    /\ report = << >>
    /\ allMetrics = << >>
    /\ pc = "write"
    /\ traceContent = << >>
    /\ appStartTimestamp = TA
    /\ RunIdle
    /\ MainIdle
    /\ StatsIdle
    /\ ToolIdle

\* await Deno.writeTextFile(filePath, content)
WriteReport ==
    /\ pc = "write"
    /\ runPc = "idle"
    /\ report' = writeMetricsToFile(metrics, config)
    /\ pc' = "read"
    /\ UNCHANGED <<traceContent, config, appStartTimestamp, metrics>>
    /\ UNCHANGED <<runVars, mainVars, statVars, toolVars>>

\* const content = await Deno.readTextFile(file), and the matches made on it
ReadReport ==
    /\ pc = "read"
    /\ \E pushes \in {FilePushes(report, FileSlots(config))} :
           allMetrics' = Collected(pushes)
    /\ pc' = "collected"
    /\ UNCHANGED <<traceContent, config, appStartTimestamp, metrics, report>>
    /\ UNCHANGED <<iteration, traceFiles, files, runMetrics, summary, runPc,
                   histVars, mainVars, statVars, toolVars>>

ReportNext == WriteReport \/ ReadReport

ReportSpec == ReportInit /\ [][ReportNext]_vars

(***************************************************************************)
(* C24: what generateSummaryReport parses for a marker or pair M from the  *)
(* report of a run is what writeMetricsToFile rendered for M itself, and   *)
(* nothing is parsed for M when the report says that M was not found; for  *)
(* any declared names, also names that end or start with one another.      *)
(***************************************************************************)
\* Every value collected under `entry` is the value v, which was rendered.
OnlyRendered(entry, rendered, v) ==
    \A k \in DOMAIN ValuesOf(allMetrics, entry) :
        rendered /\ ValuesOf(allMetrics, entry)[k] = Round3(v)

C24_ReportRoundTrip ==
    pc = "collected" =>
        /\ \A name \in MarkerNames(config) :
               /\ OnlyRendered(AbsKey(name), IsSet(metrics, TsKey(name)),
                               IF Has(metrics, TsKey(name))
                               THEN metrics[TsKey(name)] ELSE Zero)
               /\ OnlyRendered(SumRelKey(name),
                               IsSet(metrics, TsKey(name))
                                   /\ Has(metrics, RelKey(name)),
                               IF Has(metrics, RelKey(name))
                               THEN metrics[RelKey(name)] ELSE Zero)
        /\ \A p \in Range(config.pairedMarkers) :
               OnlyRendered(DurKey(p.name),
                            IsSet(metrics, TsKey(p.start))
                                /\ IsSet(metrics, TsKey(p.end)),
                            IF IsSet(metrics, TsKey(p.start))
                                   /\ IsSet(metrics, TsKey(p.end))
                            THEN Minus(metrics[TsKey(p.end)],
                                       metrics[TsKey(p.start)])
                            ELSE Zero)

(***************************************************************************)
(* create-avds: main, createAvd and ensurePackageInstalled                 *)
(***************************************************************************)
\* Most device entries of avd_config.json
MaxDevices == 3

\* The system image packages of the device entries; the package of an entry
\* that names none reads as the empty text.
Packages ==
    { "", "system-images;android-33;google_apis;x86_64",
      "system-images;android-34;google_apis;x86_64" }

DeviceEntries ==
    { [avd_name |-> "Pixel", package |-> p, device |-> "pixel"] :
          p \in Packages }

\* A variant of the test that never finds a package installed.
AlreadyInstalled_Never(pkg, installed) == FALSE

\* installedPackages.has(pkg)
AlreadyInstalled(pkg, installed) == pkg \in installed

\* const deviceCfg = config.devices[i]
deviceCfg == devices[deviceIndex + 1]

AvdInit ==
    /\ devices \in UNION {[1..n -> DeviceEntries] : n \in 0..MaxDevices}
    /\ deviceIndex = 0
    /\ installedPackages = {}
    /\ installs = << >>
    /\ successfulCreations = << >>
    /\ avdPc = "start"
    /\ config = IdleConfig
    /\ ExtractIdle
    /\ RunIdle
    /\ MainIdle
    /\ StatsIdle
    /\ LogIdle
    /\ AvgIdle

AvdUnchanged ==
    /\ UNCHANGED <<traceContent, config, pc, appStartTimestamp, metrics, report>>
    /\ UNCHANGED <<runVars, mainVars, statVars, logVars, avgVars>>

\* Deno.exit(1)
AvdExit == avdPc' = "exited"

\* main up to the loop: sdkmanager and avdmanager are on the PATH, the
\* config file is there, it parses and it has a devices array; or the
\* script exits.
AvdStart ==
    /\ avdPc = "start"
    /\ \E ready \in BOOLEAN : avdPc' = IF ready THEN "loop" ELSE "exited"
    /\ UNCHANGED <<devices, deviceIndex, installedPackages, installs,
                   successfulCreations>>
    /\ AvdUnchanged

\* for (let i = 0; i < deviceCount; i++) { ... }, and what follows the loop
AvdLoop ==
    /\ avdPc = "loop"
    /\ avdPc' = IF deviceIndex < Len(devices) THEN "createAvd" ELSE "done"
    /\ UNCHANGED <<devices, deviceIndex, installedPackages, installs,
                   successfulCreations>>
    /\ AvdUnchanged

\* createAvd: if (!AVD_NAME || !PACKAGE || !DEVICE) throw ..., which main
\* catches to exit.
CreateAvd ==
    /\ avdPc = "createAvd"
    /\ IF deviceCfg.avd_name = "" \/ deviceCfg.package = ""
            \/ deviceCfg.device = ""
       THEN AvdExit
       ELSE avdPc' = "ensure"
    /\ UNCHANGED <<devices, deviceIndex, installedPackages, installs,
                   successfulCreations>>
    /\ AvdUnchanged

\* await ensurePackageInstalled(PACKAGE): runCommand throws when sdkmanager
\* does not succeed, ensurePackageInstalled throws again, and so does
\* createAvd.
EnsurePackageInstalled ==
    /\ avdPc = "ensure"
    /\ IF AlreadyInstalled(deviceCfg.package, installedPackages)
       THEN /\ avdPc' = "create"
            /\ UNCHANGED <<installedPackages, installs>>
       ELSE \E success \in BOOLEAN :
               /\ installs' = Append(installs, [pkg |-> deviceCfg.package,
                                                ok  |-> success])
               /\ IF success
                  THEN /\ installedPackages' =
                              installedPackages \cup {deviceCfg.package}
                       /\ avdPc' = "create"
                  ELSE /\ UNCHANGED installedPackages
                       /\ AvdExit
    /\ UNCHANGED <<devices, deviceIndex, successfulCreations>>
    /\ AvdUnchanged

\* await runCommand("avdmanager", avdArgs)
AvdManagerCreate ==
    /\ avdPc = "create"
    /\ \E success \in BOOLEAN :
           IF success THEN avdPc' = "customize" ELSE AvdExit
    /\ UNCHANGED <<devices, deviceIndex, installedPackages, installs,
                   successfulCreations>>
    /\ AvdUnchanged

\* The customisation of config.ini, successfulCreations.push(AVD_NAME), and
\* the i++ of the loop.
CustomizeConfig ==
    /\ avdPc = "customize"
    /\ \E success \in BOOLEAN :
           IF success
           THEN /\ successfulCreations' =
                       Append(successfulCreations, deviceCfg.avd_name)
                /\ deviceIndex' = deviceIndex + 1
                /\ avdPc' = "loop"
           ELSE /\ UNCHANGED <<successfulCreations, deviceIndex>>
                /\ AvdExit
    /\ UNCHANGED <<devices, installedPackages, installs>>
    /\ AvdUnchanged

AvdNext ==
    \/ AvdStart
    \/ AvdLoop
    \/ CreateAvd
    \/ EnsurePackageInstalled
    \/ AvdManagerCreate
    \/ CustomizeConfig

AvdSpec == AvdInit /\ [][AvdNext]_vars

(***************************************************************************)
(* C22: in one run of create-avds, sdkmanager --install is executed at     *)
(* most once for each distinct package, whatever the device entries, and   *)
(* the packages recorded as installed are those whose installation         *)
(* succeeded.                                                              *)
(***************************************************************************)
C22_PackageInstalledOnce ==
    /\ \A j \in DOMAIN installs : \A k \in DOMAIN installs :
           installs[j].pkg = installs[k].pkg => j = k
    /\ installedPackages =
           {installs[k].pkg : k \in {j \in DOMAIN installs : installs[j].ok}}

\* Two entries with the same package were both created after one
\* installation.
C22_Witness ==
    /\ avdPc = "done"
    /\ Len(devices) >= 2
    /\ devices[1].package = devices[2].package
    /\ Len(successfulCreations) = Len(devices)
    /\ Cardinality({installs[k].pkg : k \in DOMAIN installs}) < Len(devices)
    /\ installedPackages # {}

(***************************************************************************)
(* measure-rn-performance: main                                            *)
(***************************************************************************)
\* Most lines of the chunk that a read of the log gives
MaxChunkLines == 2

WordChars == "ABCDEFGHIJKLMNOPQRSTUVWXYZabcdefghijklmnopqrstuvwxyz0123456789_"

\* The longest prefix of s that consists of word characters: \w*
WordRun(s) ==
    LET N == {n \in 0..Len(s) :
                 \A i \in 1..n : Contains(WordChars, SubSeq(s, i, i))}
    IN  SubSeq(s, 1, CHOOSE n \in N : \A k \in N : k <= n)

Drop(s, n) == SubSeq(s, n + 1, Len(s))

\* line.match(/\[Perf\]\s+(\w+)\s*<sep>\s*([\d.]+)<unit>/), for a line with
\* at most one [Perf]; unit is `\s*ms` or nothing.
PerfMatch(line, sep, unit) ==
    LET a      == AfterFirst(line, "[Perf]")
        rest   == SubSeq(line, a, Len(line))
        named  == LTrim(rest)
        name   == WordRun(named)
        atSep  == LTrim(Drop(named, Len(name)))
        atNum  == LTrim(Drop(atSep, Len(sep)))
        digits == NumberRun(atNum)
        atUnit == LTrim(Drop(atNum, Len(digits)))
    IN  IF /\ a # 0
           /\ StartsWith(rest, " ")
           /\ name # ""
           /\ StartsWith(atSep, sep)
           /\ digits # ""
           /\ StartsWith(atUnit, unit)
        THEN << [name |-> name, value |-> parseFloat(digits)] >>
        ELSE << >>

\* The metrics that the body of `for (const line of lines)` pushes.
RECURSIVE ParseLines(_)
ParseLines(lines) ==
    IF lines = << >> THEN << >>
    ELSE PerfMatch(Head(lines), ":", "ms")
             \o PerfMatch(Head(lines), "=", "")
             \o ParseLines(Tail(lines))

LogLines ==
    { "[Perf] TTI: 123.4 ms",
      "[Perf]  js_load = 45",
      "[Perf] frame:16.67ms",
      "[Perf] TTI: 12 s",
      "I/ReactNative: Running \"app\"" }

\* What a read hands back as value.split("\n"); the empty text is the
\* chunk without a line.
Chunks == UNION {[1..n -> LogLines] : n \in 0..MaxChunkLines}

LogInit ==
    /\ perfMetrics = << >>
    /\ adbProcess = "none"
    /\ stdoutLocked = FALSE
    /\ logPc = "adb"
    /\ config = IdleConfig
    /\ ExtractIdle
    /\ RunIdle
    /\ MainIdle
    /\ StatsIdle
    /\ AvdIdle
    /\ AvgIdle

LogUnchanged ==
    /\ UNCHANGED <<traceContent, config, pc, appStartTimestamp, metrics, report>>
    /\ UNCHANGED <<runVars, mainVars, statVars, avdVars, avgVars>>

\* await runCommand("adb", ["devices"]) in a try whose catch is Deno.exit(1)
CheckAdb ==
    /\ logPc = "adb"
    /\ \E success \in BOOLEAN : logPc' = IF success THEN "install" ELSE "exited"
    /\ UNCHANGED <<perfMetrics, adbProcess, stdoutLocked>>
    /\ LogUnchanged

\* await runCommand("adb", ["install", "-r", apkPath]), likewise
InstallApk ==
    /\ logPc = "install"
    /\ \E success \in BOOLEAN : logPc' = IF success THEN "launch" ELSE "exited"
    /\ UNCHANGED <<perfMetrics, adbProcess, stdoutLocked>>
    /\ LogUnchanged

\* await runCommand("adb", ["shell", "am", "start", ...]), likewise
LaunchMeasuredApp ==
    /\ logPc = "launch"
    /\ \E success \in BOOLEAN : logPc' = IF success THEN "spawn" ELSE "exited"
    /\ UNCHANGED <<perfMetrics, adbProcess, stdoutLocked>>
    /\ LogUnchanged

\* const adbProcess = new Deno.Command("adb", ...).spawn(), which throws
\* when the command cannot be started.
SpawnLogcat ==
    /\ logPc = "spawn"
    /\ \E spawned \in BOOLEAN :
           IF spawned
           THEN adbProcess' = "running" /\ logPc' = "while"
           ELSE adbProcess' = adbProcess /\ logPc' = "catch"
    /\ UNCHANGED <<perfMetrics, stdoutLocked>>
    /\ LogUnchanged

\* while (!done && Date.now() < deadline): done is never true.
TestDeadline ==
    /\ logPc = "while"
    /\ \E early \in BOOLEAN : logPc' = IF early THEN "read" ELSE "kill"
    /\ UNCHANGED <<perfMetrics, adbProcess, stdoutLocked>>
    /\ LogUnchanged

\* await adbProcess.stdout.pipeThrough(new TextDecoderStream()).getReader()
\* .read() and the rest of the body.  pipeThrough locks stdout, and throws
\* a TypeError on a stream that is locked.  On the stream of the first
\* call the read ends in the end of the stream, an empty chunk, a chunk of
\* lines, or an error.
ReadChunk ==
    /\ logPc = "read"
    /\ IF stdoutLocked
       THEN logPc' = "catch" /\ UNCHANGED <<perfMetrics, stdoutLocked>>
       ELSE /\ stdoutLocked' = TRUE
            /\ \/ \E readDone \in BOOLEAN :
                     /\ logPc' = "kill"
                     /\ UNCHANGED perfMetrics
               \/ \E lines \in Chunks \ {<< >>} :
                     /\ perfMetrics' = perfMetrics \o ParseLines(lines)
                     /\ logPc' = "while"
               \/ logPc' = "catch" /\ UNCHANGED perfMetrics
    /\ UNCHANGED adbProcess
    /\ LogUnchanged

\* adbProcess.kill("SIGINT")
KillSignal(process) == "signalled"

KillLogcat ==
    /\ logPc = "kill"
    /\ adbProcess' = KillSignal(adbProcess)
    /\ logPc' = "print"
    /\ UNCHANGED <<perfMetrics, stdoutLocked>>
    /\ LogUnchanged

\* catch (err) { s.stop(...); console.error(errorMessage) }
CatchLogError ==
    /\ logPc = "catch"
    /\ logPc' = "print"
    /\ UNCHANGED <<perfMetrics, adbProcess, stdoutLocked>>
    /\ LogUnchanged

\* for (const metric of metrics) console.log(...), and the outro
PrintMetrics ==
    /\ logPc = "print"
    /\ logPc' = "done"
    /\ UNCHANGED <<perfMetrics, adbProcess, stdoutLocked>>
    /\ LogUnchanged

LogNext ==
    \/ CheckAdb
    \/ InstallApk
    \/ LaunchMeasuredApp
    \/ SpawnLogcat
    \/ TestDeadline
    \/ ReadChunk
    \/ KillLogcat
    \/ CatchLogError
    \/ PrintMetrics

LogSpec == LogInit /\ [][LogNext]_vars

(***************************************************************************)
(* C28: by whatever path the capture of the log ends, the adb logcat child *)
(* that was spawned has been sent a kill signal when the metrics are       *)
(* printed.                                                                *)
(***************************************************************************)
C28_LogcatKilledBeforePrint ==
    logPc \in {"print", "done"} => adbProcess # "running"

(***************************************************************************)
(* generateSummaryReport, the variant that averages over the runs          *)
(***************************************************************************)
\* A pattern of extractMetric: `<label>([0-9.]+)<suffix>`, or, with count,
\* `<label>\d+ \(([0-9.]+)<suffix>`; the metric goes to allMetrics[key].
Pattern(key, label, suffix, count) ==
    [key |-> key, label |-> label, suffix |-> suffix, count |-> count]

StartupPatterns ==
    << Pattern("timeToCreate", "Time from intent to performCreate: ",
               " seconds", FALSE),
       Pattern("timeToStart", "Time from intent to performStart: ",
               " seconds", FALSE),
       Pattern("timeToResume", "Time from intent to performResume: ",
               " seconds", FALSE),
       Pattern("timeToFullyDrawn", "Total time to fully drawn: ",
               " seconds", FALSE) >>

MarkerPattern(marker) ==
    Pattern("timeTo" \o marker, "Time from app start to " \o marker \o ": ",
            " seconds", FALSE)

CustomPatterns(markers) == [i \in DOMAIN markers |-> MarkerPattern(markers[i])]

RECURSIVE PairPatterns(_)
PairPatterns(pairs) ==
    IF pairs = << >> THEN << >>
    ELSE << MarkerPattern(Head(pairs).start),
            MarkerPattern(Head(pairs).end),
            Pattern(Head(pairs).name \o "Duration",
                    "Duration of " \o Head(pairs).name \o ": ",
                    " seconds", FALSE) >>
             \o PairPatterns(Tail(pairs))

FramePatterns ==
    << Pattern("avgFrameDuration", "Average frame duration: ", " ms", FALSE),
       Pattern("avgFps", "Average FPS: ", "", FALSE),
       Pattern("jankyPercentage", "Janky frames (>16.67ms): ", "%)", TRUE),
       Pattern("severeJankyPercentage", "Severe janky frames (>33.33ms): ",
               "%)", TRUE) >>

\* The patterns in the order in which the body of `for (const line of
\* lines)` tries them.
LinePatterns(cfg) ==
    StartupPatterns \o CustomPatterns(cfg.customMarkers)
        \o PairPatterns(cfg.pairedMarkers) \o FramePatterns

\* extractMetric(pattern) on a line that holds the label at most once
extractMetric(line, p) ==
    LET a      == AfterFirst(line, p.label)
        rest   == SubSeq(line, a, Len(line))
        n      == LeadingDigits(rest)
        atNum  == IF p.count THEN Drop(rest, n + 2) ELSE rest
        digits == NumberRun(atNum)
    IN  IF /\ a # 0
           /\ p.count => n > 0 /\ StartsWith(Drop(rest, n), " (")
           /\ digits # ""
           /\ StartsWith(Drop(atNum, Len(digits)), p.suffix)
        THEN [found |-> TRUE, value |-> parseFloat(digits)]
        ELSE NoMatch

\* const v = extractMetric(...); if (v) addMetric(allMetrics, key, v), for
\* every pattern: the calls of addMetric that one line gives rise to.
RECURSIVE LineMetrics(_, _)
LineMetrics(line, patterns) ==
    IF patterns = << >> THEN << >>
    ELSE (IF /\ extractMetric(line, Head(patterns)).found
             /\ Truthy(extractMetric(line, Head(patterns)).value)
          THEN << [key   |-> Head(patterns).key,
                   value |-> extractMetric(line, Head(patterns)).value] >>
          ELSE << >>)
         \o LineMetrics(line, Tail(patterns))

RECURSIVE LinesMetrics(_, _)
LinesMetrics(lines, patterns) ==
    IF lines = << >> THEN << >>
    ELSE LineMetrics(Head(lines), patterns)
             \o LinesMetrics(Tail(lines), patterns)

\* for await (const file of dirEntries) { ... }
RECURSIVE DirMetrics(_, _)
DirMetrics(dir, patterns) ==
    IF dir = << >> THEN << >>
    ELSE LinesMetrics(Head(dir), patterns) \o DirMetrics(Tail(dir), patterns)

\* One call of addAverageToSummary: the metric, its display name, its unit.
Average(key, display, unit) == [key |-> key, display |-> display, unit |-> unit]

\* The line that addAverageToSummary appends to its parameter.
AverageLine(all, e) ==
    IF Len(ValuesOf(all, e.key)) > 0
    THEN "- " \o e.display \o ": "
             \o toFixed3(DivInt(SumOf(ValuesOf(all, e.key)),
                                Len(ValuesOf(all, e.key))))
             \o " " \o e.unit \o " (averaged over "
             \o ToString(Len(ValuesOf(all, e.key))) \o " runs)"
    ELSE "- " \o e.display \o ": No data available"

\* addAverageToSummary(content, metrics, metricName, displayName, unit): the
\* text it returns.  `content +=` assigns to the parameter, a text of the
\* caller is not changed by it.
addAverageToSummary(text, all, e) == text \o << AverageLine(all, e) >>

\* `addAverageToSummary(content, ...);` as a statement of
\* generateSummaryReport: the text returned is assigned to nothing, content
\* stays as it is.
RECURSIVE AveragesAdded(_, _, _)
AveragesAdded(text, all, entries) ==
    IF entries = << >> THEN text
    ELSE LET returned == addAverageToSummary(text, all, Head(entries))
         IN  AveragesAdded(text, all, Tail(entries))

StartupAverages ==
    << Average("timeToCreate", "Time from intent to performCreate", "seconds"),
       Average("timeToStart", "Time from intent to performStart", "seconds"),
       Average("timeToResume", "Time from intent to performResume", "seconds"),
       Average("timeToFullyDrawn", "Total time to fully drawn", "seconds") >>

MarkerAverage(marker) ==
    Average("timeTo" \o marker, "Time from app start to " \o marker, "seconds")

CustomAverages(markers) == [i \in DOMAIN markers |-> MarkerAverage(markers[i])]

PairAverages(pair) ==
    << MarkerAverage(pair.start),
       MarkerAverage(pair.end),
       Average(pair.name \o "Duration", "Duration of " \o pair.name,
               "seconds") >>

FrameAverages ==
    << Average("avgFrameDuration", "Average frame duration", "ms"),
       Average("avgFps", "Average FPS", "fps"),
       Average("jankyPercentage", "Janky frames percentage", "%"),
       Average("severeJankyPercentage", "Severe janky frames percentage",
               "%") >>

RECURSIVE PairSections(_, _, _)
PairSections(text, all, pairs) ==
    IF pairs = << >> THEN text
    ELSE PairSections(
             AveragesAdded(text \o << "=== " \o Head(pairs).name \o " ===" >>,
                           all, PairAverages(Head(pairs))) \o << "" >>,
             all, Tail(pairs))

\* The lines of content when it is written.
AverageContent(all, cfg) ==
    LET head ==
            << "===== Performance Summary Report =====",
               "Date: " \o DateText,
               "Device: " \o DeviceInfo,
               "App Package: " \o cfg.appPackage,
               "Test Iterations: " \o ToString(cfg.iterations),
               "",
               "== App Startup Performance ==",
               "App startup performance (averaged over successful runs):" >>
        startup == AveragesAdded(head, all, StartupAverages)
        custom  == AveragesAdded(
                       startup \o << "", "== Custom Marker Performance ==" >>,
                       all, CustomAverages(cfg.customMarkers))
        paired  == IF Len(cfg.pairedMarkers) > 0
                   THEN PairSections(
                            custom \o << "", "== Paired Marker Performance ==" >>,
                            all, cfg.pairedMarkers)
                   ELSE custom
    IN  AveragesAdded(paired \o << "== Frame Rendering Performance ==" >>,
                      all, FrameAverages)

AverageConfigs ==
    { Cfg(<<"js_init">>, << >>, MaxIterations, FALSE),
      Cfg(<< >>, <<NavPair>>, MaxIterations, FALSE),
      Cfg(<<"js_init">>, <<NavPair>>, MaxIterations, FALSE) }

\* The reports of runs that captured no frames.
MetricFileTexts ==
    { << "=== App Startup Performance ===",
         "Time from intent to performCreate: 0.250 seconds",
         "Total time to fully drawn: 1.500 seconds",
         "Time from app start to js_init: 1.200 seconds",
         "Total frames captured: 0" >>,
      << "Time from intent to performCreate: 0.500 seconds",
         "Time from app start to nav_start: 2.000 seconds",
         "Time from app start to nav_end: 2.300 seconds",
         "Duration of nav: 0.300 seconds" >>,
      << "Total time to fully drawn: 0.000 seconds",
         "js_init: Not found in trace",
         "Duration of nav: Could not be calculated" >>,
      << >> }

AvgInit ==
    /\ config \in AverageConfigs
    /\ metricFiles \in UNION {[1..n -> MetricFileTexts] : n \in 0..MaxIterations}
    /\ averaged = << >>
    /\ summaryText = << >>
    /\ avgPc = "collect"
    /\ ExtractIdle
    /\ RunIdle
    /\ MainIdle
    /\ StatsIdle
    /\ AvdIdle
    /\ LogIdle

AvgUnchanged ==
    /\ UNCHANGED <<traceContent, config, pc, appStartTimestamp, metrics, report>>
    /\ UNCHANGED <<runVars, mainVars, statVars, avdVars, logVars>>

\* The loop over the metrics files of the output directory
CollectAverages ==
    /\ avgPc = "collect"
    /\ \E pushes \in {DirMetrics(metricFiles, LinePatterns(config))} :
           averaged' = Collected(pushes)
    /\ avgPc' = "content"
    /\ UNCHANGED <<metricFiles, summaryText>>
    /\ AvgUnchanged

\* let content = ...; ...; await Deno.writeTextFile(summaryFile, content)
WriteAverages ==
    /\ avgPc = "content"
    /\ \E text \in {AverageContent(averaged, config)} : summaryText' = text
    /\ avgPc' = "written"
    /\ UNCHANGED <<metricFiles, averaged>>
    /\ AvgUnchanged

AvgNext == CollectAverages \/ WriteAverages

AvgSpec == AvgInit /\ [][AvgNext]_vars

(***************************************************************************)
(* C23: the summary that the averaging generateSummaryReport writes holds, *)
(* for each standard startup metric, each custom marker and the start, end *)
(* and duration of each pair, a line with the average over the runs that   *)
(* reported it and their number, or with `No data available`.              *)
(***************************************************************************)
ClaimedAverages(cfg) ==
    Range(StartupAverages) \cup Range(CustomAverages(cfg.customMarkers))
        \cup UNION {Range(PairAverages(p)) : p \in Range(cfg.pairedMarkers)}

C23_SummaryHasAverages ==
    avgPc = "written" =>
        \A e \in ClaimedAverages(config) :
            \E i \in DOMAIN summaryText :
                summaryText[i] = AverageLine(averaged, e)

====
